---- MODULE Spec2Model ----
(***************************************************************************)
(* Usage Integrity Subsystem of the trading-signal dashboard: the          *)
(* Generation Gate (server/storage.ts, server/routes.ts) and the detection *)
(* of credential sharing (server/services/sharingDetectionService.ts).     *)
(*                                                                         *)
(* Time is counted in minutes since midnight (Africa/Casablanca) of the    *)
(* day on which the modelled users were created.  Every await of a         *)
(* handler on the store or on the language model is one atomic step;       *)
(* the synchronous code that follows an await belongs to the same step.    *)
(***************************************************************************)
EXTENDS Integers, FiniteSets, Sequences, TLC

(* ------------------------------ bounds -------------------------------- *)
\* number of HTTP requests the model lets clients issue
MaxRequests == 3
\* number of times the model lets the clock advance after the initial state
MaxTicks == 2
\* number of sessions in the lists the scorer is applied to
MaxSessions == 3
\* number of audit records after which the model lets no further call begin
MaxAuditRecords == 4

(* ------------------------- program constants -------------------------- *)
\* SQL NULL / JavaScript null of a timestamp column (times are >= 0)
NULL == 0 - 1

\* routes.ts: tierLimits
tierLimits ==
  [ free    |-> [dailyLimit |-> 2,  cooldownMinutes |-> 90],
    starter |-> [dailyLimit |-> 8,  cooldownMinutes |-> 30],
    pro     |-> [dailyLimit |-> 20, cooldownMinutes |-> 15] ]

\* JavaScript undefined: the value of a property that an object does not have
UNDEFINED == 0 - 2

\* names that the object literal tierLimits inherits from Object.prototype:
\* a lookup of one of them yields a function, which is truthy and has
\* neither dailyLimit nor cooldownMinutes
InheritedKeys == {"constructor"}

\* routes.ts: tierLimits[user.subscriptionTier] || tierLimits.free
userTierLimits(tier) ==
  IF tier \in DOMAIN tierLimits THEN tierLimits[tier]
  ELSE IF tier \in InheritedKeys
       THEN [dailyLimit |-> UNDEFINED, cooldownMinutes |-> UNDEFINED]
       ELSE tierLimits.free

\* JavaScript a < b and a >= b on numbers: false when a side is undefined
\* (NaN); SQL comparisons with a NULL parameter are not true either
lessThan(a, b) == a # UNDEFINED /\ b # UNDEFINED /\ a < b
atLeast(a, b) == a # UNDEFINED /\ b # UNDEFINED /\ a >= b

\* one calendar day of the reference timezone
MinutesPerDay == 24 * 60

\* the (year, month, date) triple that the handlers compare, as a day number
CalendarDay(t) == t \div MinutesPerDay

\* routes.ts: needsReset (getDate/getMonth/getFullYear of both instants differ)
needsReset(currentTime, lastCreditReset) ==
  CalendarDay(currentTime) # CalendarDay(lastCreditReset)

(* ------------------------------ universe ------------------------------ *)
\* the rows of the users table
Users == {"u1", "u2"}

\* the account whose clients issue the requests of the model
Clients == {"u1"}

\* values of users.subscription_tier: the three known tiers and an unknown one
Tiers == DOMAIN tierLimits \cup {"vip"}

Requests == 1 .. MaxRequests

\* the amount by which the clock advances between two steps
TimeStep == tierLimits.free.cooldownMinutes

\* wall-clock at the initial state: one step before midnight
StartClock == MinutesPerDay - TimeStep

Days == 0 .. CalendarDay(StartClock + MaxTicks * TimeStep)

VARIABLES
  users,        \* the users table: counters of every row
  sessionUser,  \* req.session.user: lastCreditReset of the row copied at login
  clock,        \* Date.now(), in minutes
  req,          \* the HTTP requests: position, locals and history
  signals,      \* number of rows of trading_signals per user
  resetLog,     \* history: number of resetDailyCredits executions per user and day
  raced,        \* history: the counters of the raced row when a race on the store began
  ledger,       \* Session Activity Ledger: the session records of the account, in the order the store returns them
  auditLog,     \* the records written by storage.logSuspiciousActivity, oldest first
  sreq,         \* the calls of the sharing detection service that are under way
  scored        \* the scorer applied to the ledger as a list of sessions

\* the state of the Generation Gate
gateVars == <<users, sessionUser, clock, req, signals, resetLog, raced>>

\* the state of the sharing detection
sharingVars == <<ledger, auditLog, sreq, scored>>

vars == <<users, sessionUser, clock, req, signals, resetLog, raced,
          ledger, auditLog, sreq, scored>>

(* ------------------------------ storage ------------------------------- *)
\* schema.ts: defaults of a users row created at time t
NewUser(t, tier) ==
  [ subscriptionTier   |-> tier,
    dailyCredits       |-> 0,
    monthlyCredits     |-> 0,
    lastGenerationTime |-> NULL,
    lastCreditReset    |-> t ]

\* a faulty reset: only the date of the reset is written
resetDailyCreditsDateOnly(row, now) ==
  [ row EXCEPT !.lastCreditReset = now ]

\* storage.ts: resetDailyCredits, the SET clause applied to one row
resetDailyCredits(row, now) ==
  [ row EXCEPT !.dailyCredits = 0,
               !.lastGenerationTime = NULL,
               !.lastCreditReset = now ]

\* storage.ts: cutoff = now - cooldownMinutes * 60 * 1000 (an invalid date
\* when cooldownMinutes is undefined)
cutoffOf(now, cooldownMinutes) ==
  IF cooldownMinutes = UNDEFINED THEN UNDEFINED ELSE now - cooldownMinutes

\* faulty WHERE clauses: the limit compared with <=, the cutoff with <
UpdateWhereLax(row, dailyLimit, cooldownMinutes, now) ==
  /\ row.dailyCredits <= dailyLimit
  /\ \/ row.lastGenerationTime = NULL
     \/ row.lastGenerationTime <= cutoffOf(now, cooldownMinutes)

UpdateWhereStrictCutoff(row, dailyLimit, cooldownMinutes, now) ==
  /\ row.dailyCredits < dailyLimit
  /\ \/ row.lastGenerationTime = NULL
     \/ row.lastGenerationTime < cutoffOf(now, cooldownMinutes)

\* storage.ts: the WHERE clause of atomicGenerationUpdate on the stored row
UpdateWhere(row, dailyLimit, cooldownMinutes, now) ==
  /\ lessThan(row.dailyCredits, dailyLimit)
  /\ \/ row.lastGenerationTime = NULL
     \/ atLeast(cutoffOf(now, cooldownMinutes), row.lastGenerationTime)

\* a faulty SET clause: dailyCredits is not incremented
UpdateSetNoIncrement(row, now) ==
  [ row EXCEPT !.monthlyCredits = @ + 1,
               !.lastGenerationTime = now ]

\* storage.ts: the SET clause of atomicGenerationUpdate
UpdateSet(row, now) ==
  [ row EXCEPT !.dailyCredits = @ + 1,
               !.monthlyCredits = @ + 1,
               !.lastGenerationTime = now ]

\* storage.ts: rowsAffected of the conditional UPDATE
rowsAffected(row, dailyLimit, cooldownMinutes, now) ==
  IF UpdateWhere(row, dailyLimit, cooldownMinutes, now) THEN 1 ELSE 0

\* storage.ts: atomicGenerationUpdate, the row after the statement
atomicGenerationUpdate(row, dailyLimit, cooldownMinutes, now) ==
  IF rowsAffected(row, dailyLimit, cooldownMinutes, now) > 0
  THEN UpdateSet(row, now)
  ELSE row

\* a faulty rollback: the monthly counter is left as the reservation set it
revertGenerationUpdateDailyOnly(row, previousDailyCredits, previousLastGenerationTime) ==
  [ row EXCEPT !.dailyCredits = previousDailyCredits,
               !.lastGenerationTime = previousLastGenerationTime ]

\* storage.ts: revertGenerationUpdate, the SET clause applied to one row
revertGenerationUpdate(row, previousDailyCredits, previousLastGenerationTime) ==
  [ row EXCEPT !.dailyCredits = previousDailyCredits,
               !.monthlyCredits = @ - 1,
               !.lastGenerationTime = previousLastGenerationTime ]

(* ------------------------------ requests ------------------------------ *)
\* routes.ts: userTierLimits of the row of user u
limitsOf(u) == userTierLimits(users[u].subscriptionTier)

\* the counters as seen at one moment
ViewOf(row) ==
  [ dailyCredits       |-> row.dailyCredits,
    lastGenerationTime |-> row.lastGenerationTime ]

NoView == [ dailyCredits |-> 0, lastGenerationTime |-> NULL ]

\* a request that has not been issued yet
IdleRequest ==
  [ pc          |-> "idle",
    kind        |-> "none",
    userId      |-> "u1",
    originalDailyCredits       |-> 0,
    originalLastGenerationTime |-> NULL,
    currentTime |-> 0,
    status      |-> 0,
    reason      |-> "none",
    \* history of the request, for the properties
    didReset    |-> FALSE,
    reserve     |-> "none",
    reserveCalls |-> 0,
    pre         |-> NoView,
    interfered  |-> FALSE,
    llmCalls    |-> 0,
    reverted    |-> FALSE,
    stored      |-> FALSE,
    logged      |-> <<>> ]

\* routes.ts: cooldownEndTime of the handler's local user (an invalid date
\* when cooldownMinutes is undefined)
cooldownEndTime(user, cooldownMinutes) ==
  IF user.lastGenerationTime # NULL
  THEN IF cooldownMinutes = UNDEFINED THEN UNDEFINED
       ELSE user.lastGenerationTime + cooldownMinutes
  ELSE NULL

\* routes.ts: canGenerate
canGenerate(user, limits, currentTime) ==
  /\ lessThan(user.dailyCredits, limits.dailyLimit)
  /\ \/ cooldownEndTime(user, limits.cooldownMinutes) = NULL
     \/ atLeast(currentTime, cooldownEndTime(user, limits.cooldownMinutes))

\* a response ends the request: its locals are dead, its history stays
Respond(r, status, reason) ==
  [ r EXCEPT !.pc = "done", !.status = status, !.reason = reason,
             !.originalDailyCredits = 0,
             !.originalLastGenerationTime = NULL,
             !.currentTime = IF r.reserve = "success" THEN @ ELSE 0,
             !.pre = NoView,
             !.interfered = FALSE ]

\* routes.ts: the outer catch of the generate-signal handler: console.error
\* "Error generating signal:" and the 500 response
outerCatch(r) ==
  Respond([ r EXCEPT !.logged = Append(@, "Error generating signal") ],
          500, "internal")

\* routes.ts: the pre-check between the daily reset and the atomic update,
\* on the handler's local user
PreCheck(r, user) ==
  LET limits == limitsOf(r.userId)
      endTime == cooldownEndTime(user, limits.cooldownMinutes)
  IN
  IF canGenerate(user, limits, r.currentTime)
  THEN [ r EXCEPT !.pc = "reserve" ]
  ELSE IF atLeast(user.dailyCredits, limits.dailyLimit)
       THEN Respond(r, 429, "dailyLimit")
       ELSE IF endTime # NULL /\ lessThan(r.currentTime, endTime)
            THEN Respond(r, 429, "cooldown")
            ELSE [ r EXCEPT !.pc = "reserve" ]

\* request i wrote the counters of user u: the other requests of u that are
\* under way did not run alone
Disturb(rq, i, u) ==
  [ j \in Requests |->
      IF j # i /\ rq[j].userId = u /\ rq[j].pc \notin {"idle", "done"}
      THEN [ rq[j] EXCEPT !.interfered = TRUE ]
      ELSE rq[j] ]

(* ====================== credential-sharing detection =================== *)
(* server/services/sharingDetectionService.ts.  A confidence is counted in *)
(* tenths (0 .. 10): every weight and threshold of the service is a        *)
(* multiple of 0.1, and for each combination of factors that a session     *)
(* list can trigger (more than two devices, addresses, browsers or         *)
(* operating systems imply more than two sessions) the binary              *)
(* floating-point sum compares with 0.4, 0.6 and 0.8 as the decimal sum    *)
(* does.  A similarity is kept as a fraction.  Times are minutes.          *)
(* ======================================================================= *)

\* sharingDetectionService.ts: MAX_ALLOWED_SESSIONS
MAX_ALLOWED_SESSIONS == 2
\* sharingDetectionService.ts: SESSION_TIMEOUT_HOURS
SESSION_TIMEOUT_HOURS == 24
\* sharingDetectionService.ts: DEVICE_SIMILARITY_THRESHOLD (0.7), in tenths
DEVICE_SIMILARITY_THRESHOLD == 7
\* sharingDetectionService.ts: the interval passed to getTimeWindowKey
WindowMinutes == 5

\* the elements of a sequence
Range(seq) == { seq[k] : k \in 1 .. Len(seq) }

\* the members of seq that satisfy Test, in their order
RECURSIVE FilterSeq(_, _)
FilterSeq(seq, keep) ==
  IF seq = <<>> THEN <<>>
  ELSE IF keep[Head(seq)] THEN <<Head(seq)>> \o FilterSeq(Tail(seq), keep)
       ELSE FilterSeq(Tail(seq), keep)

\* a faulty filter: the comparison with the threshold is turned round
filterActiveSessionsInverted(sessions, now) ==
  LET activeThreshold == now - SESSION_TIMEOUT_HOURS * 60 IN
  FilterSeq(sessions, [s \in Range(sessions) |-> s.lastActive < activeThreshold])

\* sharingDetectionService.ts: filterActiveSessions
filterActiveSessions(sessions, now) ==
  LET activeThreshold == now - SESSION_TIMEOUT_HOURS * 60 IN
  FilterSeq(sessions, [s \in Range(sessions) |-> s.lastActive > activeThreshold])

\* sharingDetectionService.ts: extractFeatures of areSimilarUserAgents: the
\* browser match carries the version, the OS match is the family; no match
\* gives the empty value
extractFeatures(ua) ==
  [ browser |-> IF ua.browser = "" THEN <<>> ELSE <<ua.browser, ua.version>>,
    os      |-> ua.os ]

\* sharingDetectionService.ts: areSimilarUserAgents
areSimilarUserAgents(ua1, ua2) ==
  LET features1 == extractFeatures(ua1)
      features2 == extractFeatures(ua2)
  IN features1.browser = features2.browser /\ features1.os = features2.os

\* sharingDetectionService.ts: areSimilarIPs (same /24 of two dotted quads)
areSimilarIPs(ip1, ip2) ==
  IF Len(ip1) = 4 /\ Len(ip2) = 4
  THEN SubSeq(ip1, 1, 3) = SubSeq(ip2, 1, 3)
  ELSE FALSE

\* sharingDetectionService.ts: compareFields of compareDeviceFingerprints
compareFields ==
  << "browser", "os", "screenResolution", "timezone", "language", "platform",
     "canvasFingerprint", "webglFingerprint", "hardwareConcurrency" >>

\* a faulty comparison: the number of matching fields is not divided by the
\* number of compared fields
compareDeviceFingerprintsCount(fp1, fp2) ==
  LET both == { k \in 1 .. Len(compareFields) :
                  fp1[compareFields[k]] # "" /\ fp2[compareFields[k]] # "" }
      same == { k \in both : fp1[compareFields[k]] = fp2[compareFields[k]] }
  IN << Cardinality(same), IF both = {} THEN 0 ELSE 1 >>

\* sharingDetectionService.ts: compareDeviceFingerprints, as the pair
\* <<matches, total>>; the function returns matches / total, 0 when total = 0
compareDeviceFingerprints(fp1, fp2) ==
  LET both == { k \in 1 .. Len(compareFields) :
                  fp1[compareFields[k]] # "" /\ fp2[compareFields[k]] # "" }
      same == { k \in both : fp1[compareFields[k]] = fp2[compareFields[k]] }
  IN << Cardinality(same), Cardinality(both) >>

\* a faulty similarity: the fingerprint factor is counted as soon as the
\* first session carries a fingerprint
calculateDeviceSimilarityOneSided(session1, session2) ==
  LET uaScore == IF session1.userAgent = session2.userAgent THEN 4
                 ELSE IF areSimilarUserAgents(session1.userAgent, session2.userAgent)
                      THEN 2 ELSE 0
      ipScore == IF session1.ipAddress = session2.ipAddress THEN 3
                 ELSE IF areSimilarIPs(session1.ipAddress, session2.ipAddress)
                      THEN 1 ELSE 0
      hasBoth == session1.deviceFingerprint.present
      cmp     == compareDeviceFingerprints(session1.deviceFingerprint,
                                           session2.deviceFingerprint)
      total   == IF hasBoth /\ cmp[2] > 0 THEN cmp[2] ELSE 1
      matches == IF hasBoth /\ cmp[2] > 0 THEN cmp[1] ELSE 0
      factors == IF hasBoth THEN 3 ELSE 2
  IN [ num |-> (uaScore + ipScore) * total + 3 * matches,
       den |-> 10 * factors * total ]

\* sharingDetectionService.ts: calculateDeviceSimilarity, as the fraction
\* [num, den]: score / factors with score in tenths
calculateDeviceSimilarity(session1, session2) ==
  LET uaScore == IF session1.userAgent = session2.userAgent THEN 4
                 ELSE IF areSimilarUserAgents(session1.userAgent, session2.userAgent)
                      THEN 2 ELSE 0
      ipScore == IF session1.ipAddress = session2.ipAddress THEN 3
                 ELSE IF areSimilarIPs(session1.ipAddress, session2.ipAddress)
                      THEN 1 ELSE 0
      hasBoth == session1.deviceFingerprint.present /\ session2.deviceFingerprint.present
      cmp     == compareDeviceFingerprints(session1.deviceFingerprint,
                                           session2.deviceFingerprint)
      total   == IF hasBoth /\ cmp[2] > 0 THEN cmp[2] ELSE 1
      matches == IF hasBoth /\ cmp[2] > 0 THEN cmp[1] ELSE 0
      factors == IF hasBoth THEN 3 ELSE 2
  IN [ num |-> (uaScore + ipScore) * total + 3 * matches,
       den |-> 10 * factors * total ]

\* a faulty comparison: the score is not divided by the number of factors
isSimilarDeviceUnnormalised(session1, session2) ==
  LET similarity == calculateDeviceSimilarity(session1, session2)
      factors    == IF session1.deviceFingerprint.present
                       /\ session2.deviceFingerprint.present THEN 3 ELSE 2
  IN similarity.num * factors * 10 > DEVICE_SIMILARITY_THRESHOLD * similarity.den

\* sharingDetectionService.ts: similarity > DEVICE_SIMILARITY_THRESHOLD in
\* groupSimilarDevices
isSimilarDevice(session1, session2) ==
  LET similarity == calculateDeviceSimilarity(session1, session2) IN
  similarity.num * 10 > DEVICE_SIMILARITY_THRESHOLD * similarity.den

\* sharingDetectionService.ts: the inner loop of groupSimilarDevices from
\* position j on: the group of session and the processed device ids
RECURSIVE similarSessionsFrom(_, _, _, _, _)
similarSessionsFrom(sessions, session, j, group, processed) ==
  IF j > Len(sessions) THEN [ group |-> group, processed |-> processed ]
  ELSE IF \/ sessions[j].deviceId = session.deviceId
          \/ sessions[j].deviceId \in processed
       THEN similarSessionsFrom(sessions, session, j + 1, group, processed)
       ELSE IF isSimilarDevice(session, sessions[j])
            THEN similarSessionsFrom(sessions, session, j + 1,
                                     Append(group, sessions[j]),
                                     processed \cup {sessions[j].deviceId})
            ELSE similarSessionsFrom(sessions, session, j + 1, group, processed)

\* sharingDetectionService.ts: the outer loop of groupSimilarDevices from
\* position i on
RECURSIVE groupsFrom(_, _, _, _)
groupsFrom(sessions, i, groups, processed) ==
  IF i > Len(sessions) THEN groups
  ELSE IF sessions[i].deviceId \in processed
       THEN groupsFrom(sessions, i + 1, groups, processed)
       ELSE LET inner == similarSessionsFrom(sessions, sessions[i], 1,
                                             <<sessions[i]>>,
                                             processed \cup {sessions[i].deviceId})
            IN groupsFrom(sessions, i + 1, Append(groups, inner.group),
                          inner.processed)

\* a faulty grouping: every session founds a group of its own
groupEverySession(sessions) ==
  [ k \in 1 .. Len(sessions) |-> <<sessions[k]>> ]

\* sharingDetectionService.ts: groupSimilarDevices
groupSimilarDevices(sessions) == groupsFrom(sessions, 1, <<>>, {})

\* sharingDetectionService.ts: analyzeUserAgentVariations
analyzeUserAgentVariations(userAgents) ==
  [ uniqueUserAgents        |-> Cardinality(Range(userAgents)),
    uniqueBrowsers          |-> Cardinality({ ua.browser : ua \in Range(userAgents) } \ {""}),
    uniqueOperatingSystems  |-> Cardinality({ ua.os : ua \in Range(userAgents) } \ {""}) ]

\* the device ids of the groups that count as suspicious, in their order
RECURSIVE suspiciousOf(_, _)
suspiciousOf(groups, currentDeviceId) ==
  IF groups = <<>> THEN <<>>
  ELSE LET group == Head(groups) IN
       IF Len(group) > 1 /\ \E k \in 1 .. Len(group) : group[k].deviceId # currentDeviceId
       THEN [ k \in 1 .. Len(group) |-> group[k].deviceId ]
              \o suspiciousOf(Tail(groups), currentDeviceId)
       ELSE suspiciousOf(Tail(groups), currentDeviceId)

\* sharingDetectionService.ts: analyzeDevicePatterns
analyzeDevicePatterns(sessions, currentDeviceId) ==
  LET uniqueDevices == { s.deviceId : s \in Range(sessions) }
      uniqueIPs     == { s.ipAddress : s \in Range(sessions) }
      userAgents    == [ k \in 1 .. Len(sessions) |-> sessions[k].userAgent ]
  IN [ uniqueDeviceCount   |-> Cardinality(uniqueDevices),
       uniqueIPCount       |-> Cardinality(uniqueIPs),
       userAgentVariations |-> analyzeUserAgentVariations(userAgents),
       suspiciousDevices   |-> suspiciousOf(groupSimilarDevices(sessions), currentDeviceId),
       hasCurrentDevice    |-> currentDeviceId \in uniqueDevices ]

\* sharingDetectionService.ts: getTimeWindowKey
getTimeWindowKey(date, intervalMinutes) ==
  (date \div intervalMinutes) * intervalMinutes

\* the greatest element of a finite non-empty set of numbers, 0 for the empty set
MaxOf(S) == IF S = {} THEN 0 ELSE CHOOSE m \in S : \A n \in S : n <= m

\* sharingDetectionService.ts: analyzeSimultaneousAccess
analyzeSimultaneousAccess(sessions) ==
  LET keyOf(k)      == getTimeWindowKey(sessions[k].lastActive, WindowMinutes)
      timeWindows   == { keyOf(k) : k \in 1 .. Len(sessions) }
      inWindow(w)   == { k \in 1 .. Len(sessions) : keyOf(k) = w }
      simultaneous  == { w \in timeWindows :
                           \/ Cardinality({ sessions[k].deviceId : k \in inWindow(w) }) > 1
                           \/ Cardinality({ sessions[k].ipAddress : k \in inWindow(w) }) > 1 }
  IN [ simultaneousWindowsCount |-> Cardinality(simultaneous),
       maxSimultaneousSessions  |-> MaxOf({ Cardinality(inWindow(w)) : w \in simultaneous }),
       totalTimeWindows         |-> Cardinality(timeWindows) ]

\* the smaller of two numbers
MinOf(a, b) == IF a <= b THEN a ELSE b

\* a faulty scorer: the sum of the weights is returned without the cap
calculateSharingConfidenceUncapped(deviceAnalysis, simultaneousAnalysis, sessionCount) ==
    (IF deviceAnalysis.uniqueDeviceCount > 2 THEN 3 ELSE 0)
  + (IF deviceAnalysis.uniqueIPCount > 2 THEN 2 ELSE 0)
  + (IF simultaneousAnalysis.simultaneousWindowsCount > 0 THEN 4 ELSE 0)
  + (IF sessionCount > MAX_ALLOWED_SESSIONS THEN 5 ELSE 0)
  + (IF deviceAnalysis.userAgentVariations.uniqueBrowsers > 2 THEN 2 ELSE 0)
  + (IF deviceAnalysis.userAgentVariations.uniqueOperatingSystems > 2 THEN 3 ELSE 0)
  + (IF Len(deviceAnalysis.suspiciousDevices) > 0 THEN 6 ELSE 0)

\* a faulty scorer: the weight of too many sessions is taken off
calculateSharingConfidenceSignSlip(deviceAnalysis, simultaneousAnalysis, sessionCount) ==
  MinOf( (IF deviceAnalysis.uniqueDeviceCount > 2 THEN 3 ELSE 0)
       + (IF deviceAnalysis.uniqueIPCount > 2 THEN 2 ELSE 0)
       + (IF simultaneousAnalysis.simultaneousWindowsCount > 0 THEN 4 ELSE 0)
       - (IF sessionCount > MAX_ALLOWED_SESSIONS THEN 5 ELSE 0)
       + (IF deviceAnalysis.userAgentVariations.uniqueBrowsers > 2 THEN 2 ELSE 0)
       + (IF deviceAnalysis.userAgentVariations.uniqueOperatingSystems > 2 THEN 3 ELSE 0)
       + (IF Len(deviceAnalysis.suspiciousDevices) > 0 THEN 6 ELSE 0),
       10 )

\* sharingDetectionService.ts: calculateSharingConfidence, in tenths
calculateSharingConfidence(deviceAnalysis, simultaneousAnalysis, sessionCount) ==
  MinOf( (IF deviceAnalysis.uniqueDeviceCount > 2 THEN 3 ELSE 0)
       + (IF deviceAnalysis.uniqueIPCount > 2 THEN 2 ELSE 0)
       + (IF simultaneousAnalysis.simultaneousWindowsCount > 0 THEN 4 ELSE 0)
       + (IF sessionCount > MAX_ALLOWED_SESSIONS THEN 5 ELSE 0)
       + (IF deviceAnalysis.userAgentVariations.uniqueBrowsers > 2 THEN 2 ELSE 0)
       + (IF deviceAnalysis.userAgentVariations.uniqueOperatingSystems > 2 THEN 3 ELSE 0)
       + (IF Len(deviceAnalysis.suspiciousDevices) > 0 THEN 6 ELSE 0),
       10 )

\* sharingDetectionService.ts: generateSharingReason, the triggered factors
\* in the order in which they are joined
generateSharingReason(deviceAnalysis, simultaneousAnalysis, sessionCount) ==
  LET reasons ==
        (IF sessionCount > MAX_ALLOWED_SESSIONS THEN <<"Too many active sessions">> ELSE <<>>)
     \o (IF deviceAnalysis.uniqueDeviceCount > 2 THEN <<"Multiple devices detected">> ELSE <<>>)
     \o (IF deviceAnalysis.uniqueIPCount > 2 THEN <<"Multiple IP addresses">> ELSE <<>>)
     \o (IF simultaneousAnalysis.simultaneousWindowsCount > 0
         THEN <<"Simultaneous access from different locations">> ELSE <<>>)
     \o (IF Len(deviceAnalysis.suspiciousDevices) > 0
         THEN <<"Similar device fingerprints detected">> ELSE <<>>)
     \o (IF deviceAnalysis.userAgentVariations.uniqueBrowsers > 2
         THEN <<"Multiple browsers">> ELSE <<>>)
  IN IF Len(reasons) > 0 THEN reasons ELSE <<"Unusual access patterns detected">>

\* a faulty assessment: sharing is reported from the confidence of a
\* warning on
assessFromWarnLevel(recentSessions, currentDeviceId, now) ==
  LET activeSessions       == filterActiveSessions(recentSessions, now)
      deviceAnalysis       == analyzeDevicePatterns(activeSessions, currentDeviceId)
      simultaneousAnalysis == analyzeSimultaneousAccess(activeSessions)
      confidence == calculateSharingConfidence(deviceAnalysis, simultaneousAnalysis,
                                               Len(activeSessions))
  IN [ isSharing  |-> confidence >= 4 \/ Len(activeSessions) > MAX_ALLOWED_SESSIONS,
       reason     |-> generateSharingReason(deviceAnalysis, simultaneousAnalysis,
                                            Len(activeSessions)),
       confidence |-> confidence,
       activeSessions    |-> Len(activeSessions),
       suspiciousDevices |-> deviceAnalysis.suspiciousDevices ]

\* sharingDetectionService.ts: the result of detectSharing when its try
\* block completes, for the sessions the ledger returned
assess(recentSessions, currentDeviceId, now) ==
  LET activeSessions       == filterActiveSessions(recentSessions, now)
      deviceAnalysis       == analyzeDevicePatterns(activeSessions, currentDeviceId)
      simultaneousAnalysis == analyzeSimultaneousAccess(activeSessions)
      confidence == calculateSharingConfidence(deviceAnalysis, simultaneousAnalysis,
                                               Len(activeSessions))
  IN [ isSharing  |-> confidence > 6 \/ Len(activeSessions) > MAX_ALLOWED_SESSIONS,
       reason     |-> generateSharingReason(deviceAnalysis, simultaneousAnalysis,
                                            Len(activeSessions)),
       confidence |-> confidence,
       activeSessions    |-> Len(activeSessions),
       suspiciousDevices |-> deviceAnalysis.suspiciousDevices ]

\* a faulty service: an error counts as sharing detected with certainty
errorResultFailClosed(reason) ==
  [ isSharing  |-> TRUE,
    reason     |-> <<reason>>,
    confidence |-> 10,
    activeSessions    |-> 0,
    suspiciousDevices |-> <<>> ]

\* sharingDetectionService.ts: the result of the catch block of detectSharing
\* ("Error analyzing sessions") and of detectAndEnforce ("Error during
\* enforcement")
errorResult(reason) ==
  [ isSharing  |-> FALSE,
    reason     |-> <<reason>>,
    confidence |-> 0,
    activeSessions    |-> 0,
    suspiciousDevices |-> <<>> ]

\* sharingDetectionService.ts: detectSharing; read is the outcome of
\* storage.getUserSessions: the sessions returned, or an error raised
detectSharing(read, currentDeviceId, now) ==
  IF read.raised THEN errorResult("Error analyzing sessions")
  ELSE assess(read.sessions, currentDeviceId, now)

\* sharingDetectionService.ts: the branch of enforcePolicy taken for a
\* detection result
policyBranch(detectionResult) ==
  IF ~detectionResult.isSharing THEN "allow"
  ELSE IF detectionResult.confidence >= 8 THEN "terminate"
  ELSE IF \/ detectionResult.confidence >= 6
          \/ detectionResult.activeSessions > MAX_ALLOWED_SESSIONS THEN "restrict"
  ELSE IF detectionResult.confidence >= 4 THEN "warn"
  ELSE "allow"

\* a faulty quick check: the threshold of the warning is taken for the
\* threshold of the termination
blocksOnWarnLevel(detectionResult) ==
  detectionResult.confidence >= 4

\* sharingDetectionService.ts: the value shouldBlockRequest returns for a
\* detection result
blocksOn(detectionResult) ==
  detectionResult.confidence >= 8

(* --------------- the scorer on bounded lists of sessions --------------- *)
\* values of the x-device-id header
DeviceIds == {"d1", "d2", "d3"}

\* addresses: two of one /24 and one of another
IpAddresses == { <<10, 0, 0, 1>>, <<10, 0, 0, 2>>, <<10, 0, 1, 1>> }

\* what the regular expressions of the service find in a user-agent header
userAgentChrome  == [browser |-> "Chrome",  version |-> "120.0", os |-> "Windows"]
userAgentFirefox == [browser |-> "Firefox", version |-> "119.0", os |-> "Linux"]
userAgentSafari  == [browser |-> "Safari",  version |-> "17.1",  os |-> "Mac"]

\* a session without device fingerprint
NoFingerprint ==
  [ present |-> FALSE, browser |-> "", os |-> "", screenResolution |-> "",
    timezone |-> "", language |-> "", platform |-> "", canvasFingerprint |-> "",
    webglFingerprint |-> "", hardwareConcurrency |-> "" ]

\* routes.ts: the deviceFingerprint that POST /api/tracking/device-action builds
fingerprintCasablanca ==
  [ present |-> TRUE, browser |-> "Chrome", os |-> "Windows",
    screenResolution |-> "1920x1080", timezone |-> "Africa/Casablanca",
    language |-> "en-US", platform |-> "Win32", canvasFingerprint |-> "c1",
    webglFingerprint |-> "w1", hardwareConcurrency |-> "8" ]

\* the same fingerprint but for the timezone
fingerprintParis == [ fingerprintCasablanca EXCEPT !.timezone = "Europe/Paris" ]

\* the browsers that the sessions of the model come from: user agent and
\* fingerprint
Installations ==
  { [userAgent |-> userAgentChrome,  deviceFingerprint |-> fingerprintCasablanca],
    [userAgent |-> userAgentChrome,  deviceFingerprint |-> fingerprintParis],
    [userAgent |-> userAgentFirefox, deviceFingerprint |-> NoFingerprint],
    [userAgent |-> userAgentSafari,  deviceFingerprint |-> fingerprintCasablanca] }

\* the instant of the detection calls of the scorer model
ScoreNow == 2 * MinutesPerDay

\* last-active times of active sessions: one in the current 5-minute window,
\* one in the window before
LastActives == { ScoreNow - 1, ScoreNow - 7 }

\* a last-active time as old as the session timeout
ExpiredLastActive == ScoreNow - SESSION_TIMEOUT_HOURS * 60

\* SessionInfo
SessionInfo(deviceId, ipAddress, installation, lastActive) ==
  [ deviceId |-> deviceId, ipAddress |-> ipAddress,
    userAgent |-> installation.userAgent,
    lastActive |-> lastActive,
    deviceFingerprint |-> installation.deviceFingerprint ]

\* the sessions the lists are made of: every active session over the values
\* above and, for each device, one expired session
SessionInfos ==
  { SessionInfo(d, ip, inst, t) :
      d \in DeviceIds, ip \in IpAddresses, inst \in Installations, t \in LastActives }
  \cup
  { SessionInfo(d, <<10, 0, 0, 1>>,
                [userAgent |-> userAgentChrome, deviceFingerprint |-> NoFingerprint],
                ExpiredLastActive) : d \in DeviceIds }

\* the device ids of the sessions of each group
deviceIdsOf(groups) ==
  [ g \in 1 .. Len(groups) |-> [ k \in 1 .. Len(groups[g]) |-> groups[g][k].deviceId ] ]

\* what one detection call yields for a list of sessions, with two values
\* from inside the call: the similarity of each pair of sessions and the
\* groups of similar devices among the active sessions, by device id
scoreOf(sessions, currentDeviceId, previous) ==
  LET detectionResult ==
        detectSharing([raised |-> FALSE, sessions |-> sessions], currentDeviceId, ScoreNow)
  IN [ currentDeviceId |-> currentDeviceId,
       previous        |-> previous,
       detectionResult |-> detectionResult,
       action          |-> policyBranch(detectionResult),
       block           |-> blocksOn(detectionResult),
       similarity      |-> [ i \in 1 .. Len(sessions) |->
                               [ j \in 1 .. Len(sessions) |->
                                   calculateDeviceSimilarity(sessions[i], sessions[j]) ] ],
       deviceGroups    |-> deviceIdsOf(groupSimilarDevices(
                                         filterActiveSessions(sessions, ScoreNow))) ]

\* the scorer on the empty list; the service compares device ids for
\* equality only, so that one current device stands for each of them
NoScore == scoreOf(<<>>, "d1", NULL)


(* ------------- the service over the Session Activity Ledger ------------ *)
(* The storage methods of the ledger (getUserSessions,                     *)
(* updateSessionActivity, terminateAllUserSessions,                        *)
(* terminateOldestUserSessions, logSuspiciousActivity) are not part of     *)
(* server/storage.ts; they follow sections 3 and 6 of the specification:   *)
(* one record per (user, device), refreshed on activity.  Each of them is  *)
(* one await of the service and either completes or raises.  One call of   *)
(* the service is followed at a time.                                      *)

\* where a request comes from: device id, address, user agent, and the
\* fingerprint the device reports to POST /api/tracking/device-action
Origins ==
  { SessionInfo("d1", <<10, 0, 0, 1>>,
                [userAgent |-> userAgentChrome, deviceFingerprint |-> fingerprintCasablanca], 0),
    SessionInfo("d2", <<10, 0, 0, 2>>,
                [userAgent |-> userAgentChrome, deviceFingerprint |-> fingerprintParis], 0),
    SessionInfo("d3", <<10, 0, 1, 1>>,
                [userAgent |-> userAgentFirefox, deviceFingerprint |-> NoFingerprint], 0) }

\* the callers of the service
CallKinds == {"middleware", "track", "sharingCheck", "shouldBlock"}

\* the amount by which the clock advances between two calls
LedgerStep == (SESSION_TIMEOUT_HOURS * 60) \div 2

\* spec 6: getRecentSessions(userId, sinceTimestamp)
getUserSessions(sessions, cutoffTime) ==
  FilterSeq(sessions, [s \in Range(sessions) |-> s.lastActive >= cutoffTime])

\* sharingDetectionService.ts: getRecentUserSessions, the read that
\* detectSharing starts with
getRecentUserSessions(sessions, now) ==
  getUserSessions(sessions, now - SESSION_TIMEOUT_HOURS * 60)

\* spec 3 and 6: upsertSessionActivity(userId, deviceId, ipAddress, userAgent,
\* fingerprint?): the record of the device is refreshed, or created
updateSessionActivity(sessions, origin, now, withFingerprint) ==
  LET fresh(old) ==
        [ origin EXCEPT !.lastActive = now,
                        !.deviceFingerprint =
                           IF withFingerprint THEN origin.deviceFingerprint ELSE old ]
  IN IF \E k \in 1 .. Len(sessions) : sessions[k].deviceId = origin.deviceId
     THEN [ k \in 1 .. Len(sessions) |->
              IF sessions[k].deviceId = origin.deviceId
              THEN fresh(sessions[k].deviceFingerprint)
              ELSE sessions[k] ]
     ELSE Append(sessions, fresh(NoFingerprint))

\* spec 6: terminateAllSessions(userId)
terminateAllUserSessions(sessions) == <<>>

\* spec 4.3 and 6: terminateOldestSessions(userId, keepCount): all but the
\* keepCount most recently active sessions go, the later record winning a tie
terminateOldestUserSessions(sessions, keepCount) ==
  LET newer(k) == { j \in 1 .. Len(sessions) :
                      \/ sessions[j].lastActive > sessions[k].lastActive
                      \/ sessions[j].lastActive = sessions[k].lastActive /\ j > k }
      kept == { sessions[k] : k \in { j \in 1 .. Len(sessions) :
                                        Cardinality(newer(j)) < keepCount } }
  IN FilterSeq(sessions, [s \in Range(sessions) |-> s \in kept])

\* a detection result that has not been computed
NoResult == errorResult("none")

\* a call of the service that has not begun
IdleSharingRequest ==
  [ pc     |-> "idle",
    kind   |-> "none",
    origin |-> CHOOSE o \in Origins : TRUE,
    detectionResult |-> NoResult,
    branch  |-> "none",
    policy  |-> "none",
    blocked |-> FALSE,
    block   |-> FALSE,
    status  |-> 0,
    \* history of the call, for the properties
    enforce       |-> "none",
    audits        |-> 0,
    updateRaised  |-> FALSE,
    readRaised    |-> FALSE,
    writeRaised   |-> FALSE,
    terminated    |-> 0 ]

\* routes.ts: the response of the caller once detectAndEnforce or
\* enforcePolicy has returned: the middleware answers 403 when the request is
\* blocked and calls next() otherwise (status 200 here)
respondSharing(r) ==
  [ r EXCEPT !.pc = "done",
             !.status = IF r.kind = "middleware" /\ r.blocked THEN 403 ELSE 200 ]

\* a faulty enforcer: blocked is set whatever the action
policyReturnsBlocked(r, action) ==
  respondSharing([ r EXCEPT !.policy = action,
                            !.blocked = TRUE,
                            !.enforce = "returned" ])

\* sharingDetectionService.ts: enforcePolicy returns action (and blocked)
policyReturns(r, action) ==
  respondSharing([ r EXCEPT !.policy = action,
                            !.blocked = (action = "terminate"),
                            !.enforce = "returned" ])

\* a faulty service: an error inside enforcePolicy leaves the assessment of
\* detectSharing as the result of detectAndEnforce
policyRaisesKeepsAssessment(r) ==
  IF r.kind = "sharingCheck"
  THEN [ r EXCEPT !.pc = "done", !.status = 500, !.enforce = "raised" ]
  ELSE respondSharing([ r EXCEPT !.enforce = "raised" ])

\* sharingDetectionService.ts, routes.ts: an await of enforcePolicy raised:
\* detectAndEnforce catches it and returns "Error during enforcement", the
\* sharing-check route answers 500
policyRaises(r) ==
  IF r.kind = "sharingCheck"
  THEN [ r EXCEPT !.pc = "done", !.status = 500, !.enforce = "raised" ]
  ELSE respondSharing([ r EXCEPT !.enforce = "raised",
                                 !.detectionResult = errorResult("Error during enforcement") ])

\* sharingDetectionService.ts: the audit record that enforcePolicy writes
\* after the enforcement of a branch
outcomeRecord(branch) ==
  IF branch = "terminate" THEN "sharing_blocked_high_confidence"
  ELSE IF branch = "restrict" THEN "sharing_sessions_limited"
  ELSE "sharing_warning_issued"

(* ------------------------------- Init --------------------------------- *)
\* the Generation Gate before any request
GateIdle ==
  /\ clock = StartClock
  /\ users = [u \in Users |->
                NewUser(StartClock, IF u \in Clients THEN "free" ELSE "starter")]
  /\ sessionUser = [u \in Users |-> StartClock]
  /\ req = [i \in Requests |-> IdleRequest]
  /\ signals = [u \in Users |-> 0]
  /\ resetLog = [u \in Users |-> [d \in Days |-> 0]]
  /\ raced = NoView

\* the sharing detection before any session
SharingIdle ==
  /\ ledger = <<>>
  /\ auditLog = <<>>
  /\ sreq = IdleSharingRequest
  /\ scored = NoScore

Init == GateIdle /\ SharingIdle

(* ------------------------------ actions ------------------------------- *)
\* time passes
Tick ==
  /\ clock + TimeStep <= StartClock + MaxTicks * TimeStep
  /\ clock' = clock + TimeStep
  /\ UNCHANGED <<users, sessionUser, req, signals, resetLog, raced, sharingVars>>

\* routes.ts: POST /api/auth/login stores the row in the session
Login(u) ==
  /\ sessionUser[u] # users[u].lastCreditReset
  /\ sessionUser' = [sessionUser EXCEPT ![u] = users[u].lastCreditReset]
  /\ UNCHANGED <<users, clock, req, signals, resetLog, raced, sharingVars>>

\* requests are issued in the order of their numbers
MayStart(i) ==
  /\ req[i].pc = "idle"
  /\ IF i = 1 THEN TRUE ELSE req[i - 1].pc # "idle"

\* routes.ts: the generate-signal handler up to its first write: storage.getUser,
\* market hours, snapshot of the original counters, currentTime and needsReset
enterHandler(i, u, marketOpen) ==
  LET r1 == [ IdleRequest EXCEPT
                !.kind = "generate",
                !.userId = u,
                !.originalDailyCredits = users[u].dailyCredits,
                !.originalLastGenerationTime = users[u].lastGenerationTime,
                !.currentTime = clock ]
  IN
  req' = [req EXCEPT ![i] =
       IF ~marketOpen THEN Respond(r1, 400, "marketClosed")
       ELSE IF needsReset(clock, users[u].lastCreditReset)
            THEN [ r1 EXCEPT !.pc = "reset" ]
            ELSE PreCheck(r1, ViewOf(users[u])) ]

\* routes.ts: POST /api/v1/generate-signal, the handler is entered
GetUser(i, u, marketOpen) ==
  /\ MayStart(i)
  /\ enterHandler(i, u, marketOpen)
  /\ UNCHANGED <<users, sessionUser, clock, signals, resetLog, raced, sharingVars>>

\* routes.ts: storage.resetDailyCredits in the generate-signal handler, the
\* update of the local user object and the pre-check
ResetDaily(i) ==
  LET r == req[i]
      u == r.userId
  IN
  /\ r.pc = "reset"
  /\ users' = [users EXCEPT ![u] = resetDailyCredits(users[u], clock)]
  /\ resetLog' = [resetLog EXCEPT ![u][CalendarDay(clock)] = @ + 1]
  /\ req' = [Disturb(req, i, u) EXCEPT ![i] =
               PreCheck([ r EXCEPT !.didReset = TRUE ], NoView)]
  /\ UNCHANGED <<sessionUser, clock, signals, raced, sharingVars>>

\* a faulty handler: an error raised by the store is taken for a reservation
afterReserveFailOpen(r, result) ==
  IF result = "norow"
  THEN [ r EXCEPT !.pc = "raceLost", !.reserve = result ]
  ELSE [ r EXCEPT !.pc = "llm", !.reserve = result ]

\* routes.ts: what the handler does with the outcome of atomicGenerationUpdate:
\* a raised error reaches the outer catch, success=false the race-lost branch
afterReserve(r, result) ==
  IF result = "success"
  THEN [ r EXCEPT !.pc = "llm", !.reserve = result ]
  ELSE IF result = "norow"
       THEN [ r EXCEPT !.pc = "raceLost", !.reserve = result ]
       ELSE outerCatch([ r EXCEPT !.reserve = result ])

\* routes.ts: storage.atomicGenerationUpdate(userId, dailyLimit,
\* cooldownMinutes, currentTime) and the branch on updateResult.success
Reserve(i, storeOk) ==
  LET r == req[i]
      u == r.userId
      limits == limitsOf(u)
      success == rowsAffected(users[u], limits.dailyLimit,
                              limits.cooldownMinutes, r.currentTime) > 0
      r1 == [ r EXCEPT !.pre = ViewOf(users[u]), !.reserveCalls = @ + 1 ]
  IN
  /\ r.pc = "reserve"
  /\ IF storeOk
     THEN /\ users' = [users EXCEPT ![u] =
                atomicGenerationUpdate(users[u], limits.dailyLimit,
                                       limits.cooldownMinutes, r.currentTime)]
          /\ req' = IF success
                    THEN [Disturb(req, i, u) EXCEPT ![i] = afterReserve(r1, "success")]
                    ELSE [req EXCEPT ![i] = afterReserve(r1, "norow")]
     ELSE /\ req' = [req EXCEPT ![i] = afterReserve(r1, "error")]
          /\ UNCHANGED users
  /\ UNCHANGED <<sessionUser, clock, signals, resetLog, raced, sharingVars>>

\* a faulty handler: the reason is worked out from the counters the request
\* saw at its reservation instead of the re-read row
raceLostReasonStale(r, updatedUser) ==
  LET limits == limitsOf(r.userId)
      newCooldownEndTime == cooldownEndTime(r.pre, limits.cooldownMinutes)
  IN
  IF atLeast(r.pre.dailyCredits, limits.dailyLimit)
  THEN Respond(r, 429, "raceDailyLimit")
  ELSE IF newCooldownEndTime # NULL /\ lessThan(r.currentTime, newCooldownEndTime)
       THEN Respond(r, 429, "raceCooldown")
       ELSE Respond(r, 500, "raceUnknown")

\* routes.ts: the response of the race-lost branch for the re-read row
raceLostReason(r, updatedUser) ==
  LET limits == limitsOf(r.userId)
      newCooldownEndTime == cooldownEndTime(updatedUser, limits.cooldownMinutes)
  IN
  IF atLeast(updatedUser.dailyCredits, limits.dailyLimit)
  THEN Respond(r, 429, "raceDailyLimit")
  ELSE IF newCooldownEndTime # NULL /\ lessThan(r.currentTime, newCooldownEndTime)
       THEN Respond(r, 429, "raceCooldown")
       ELSE Respond(r, 500, "raceUnknown")

\* a faulty handler: a lost race goes back to the reservation
raceLostRetry(r) ==
  [ r EXCEPT !.pc = "reserve" ]

\* routes.ts: after success=false the handler only answers
raceLostAnswer(r) ==
  raceLostReason(r, ViewOf(users[r.userId]))

\* routes.ts: the race-lost branch: re-read of the row and the reason reported
RaceLost(i) ==
  /\ req[i].pc = "raceLost"
  /\ req' = [req EXCEPT ![i] = raceLostAnswer(req[i])]
  /\ UNCHANGED <<users, sessionUser, clock, signals, resetLog, raced, sharingVars>>

\* routes.ts: generateTradingSignal returns or throws; the catch of the call
\* writes console.error "OpenAI generation failed" before the rollback
CallModel(i, generated) ==
  LET r == req[i] IN
  /\ r.pc = "llm"
  /\ req' = [req EXCEPT ![i] =
       [ r EXCEPT !.llmCalls = @ + 1,
                  !.pc = IF generated THEN "create" ELSE "revert",
                  !.logged = IF generated THEN @
                             ELSE Append(@, "OpenAI generation failed") ]]
  /\ UNCHANGED <<users, sessionUser, clock, signals, resetLog, raced, sharingVars>>

\* routes.ts: storage.revertGenerationUpdate(userId, originalDailyCredits,
\* originalLastGenerationTime) in the catch of the language-model call
Revert(i, storeOk) ==
  LET r == req[i]
      u == r.userId
  IN
  /\ r.pc = "revert"
  /\ IF storeOk
     THEN /\ users' = [users EXCEPT ![u] =
                revertGenerationUpdate(users[u], r.originalDailyCredits,
                                       r.originalLastGenerationTime)]
          /\ req' = [Disturb(req, i, u) EXCEPT ![i] =
                Respond([ r EXCEPT !.reverted = TRUE ], 500, "generationFailed")]
     ELSE /\ req' = [req EXCEPT ![i] = outerCatch(r)]
          /\ UNCHANGED users
  /\ UNCHANGED <<sessionUser, clock, signals, resetLog, raced, sharingVars>>

\* routes.ts: storage.createSignal and the 200 response
CreateSignal(i) ==
  LET r == req[i] IN
  /\ r.pc = "create"
  /\ signals' = [signals EXCEPT ![r.userId] = @ + 1]
  /\ req' = [req EXCEPT ![i] = Respond([ r EXCEPT !.stored = TRUE ], 200, "ok")]
  /\ UNCHANGED <<users, sessionUser, clock, resetLog, raced, sharingVars>>

\* routes.ts: GET /api/auth/user: unifyUserIdentity takes the user from the
\* session, the handler evaluates needsReset on that copy of the row
AuthUser(i, u) ==
  LET r1 == [ IdleRequest EXCEPT !.kind = "authUser",
                                 !.userId = u,
                                 !.currentTime = clock ]
  IN
  /\ MayStart(i)
  /\ req' = [req EXCEPT ![i] =
       IF needsReset(clock, sessionUser[u])
       THEN [ r1 EXCEPT !.pc = "authReset" ]
       ELSE Respond(r1, 200, "ok") ]
  /\ UNCHANGED <<users, sessionUser, clock, signals, resetLog, raced, sharingVars>>

\* routes.ts: storage.resetDailyCredits in GET /api/auth/user, then the
\* re-read of the row for the response
AuthReset(i) ==
  LET r == req[i]
      u == r.userId
  IN
  /\ r.pc = "authReset"
  /\ users' = [users EXCEPT ![u] = resetDailyCredits(users[u], clock)]
  /\ resetLog' = [resetLog EXCEPT ![u][CalendarDay(clock)] = @ + 1]
  /\ req' = [Disturb(req, i, u) EXCEPT ![i] =
               Respond([ r EXCEPT !.didReset = TRUE ], 200, "ok")]
  /\ UNCHANGED <<sessionUser, clock, signals, raced, sharingVars>>

Next ==
  \/ Tick
  \/ \E u \in Clients : Login(u)
  \/ \E i \in Requests, u \in Clients, open \in BOOLEAN : GetUser(i, u, open)
  \/ \E i \in Requests : ResetDaily(i)
  \/ \E i \in Requests, storeOk \in BOOLEAN : Reserve(i, storeOk)
  \/ \E i \in Requests : RaceLost(i)
  \/ \E i \in Requests, generated \in BOOLEAN : CallModel(i, generated)
  \/ \E i \in Requests, storeOk \in BOOLEAN : Revert(i, storeOk)
  \/ \E i \in Requests : CreateSignal(i)
  \/ \E i \in Requests, u \in Clients : AuthUser(i, u)
  \/ \E i \in Requests : AuthReset(i)

Spec == Init /\ [][Next]_vars

(* ----------------- races on atomicGenerationUpdate alone --------------- *)
\* The row of the client at the start of a race: some tier, either no usage
\* since the daily reset at midnight or one slot left, the last generation
\* lying one cooldown after the one before it.
RaceStart == MinutesPerDay

RaceLastGeneration(tier) ==
  RaceStart + (userTierLimits(tier).dailyLimit - 2) * userTierLimits(tier).cooldownMinutes

RaceRow(tier, oneSlotLeft) ==
  IF oneSlotLeft
  THEN [ NewUser(RaceStart, tier) EXCEPT
           !.dailyCredits = userTierLimits(tier).dailyLimit - 1,
           !.monthlyCredits = userTierLimits(tier).dailyLimit - 1,
           !.lastGenerationTime = RaceLastGeneration(tier) ]
  ELSE NewUser(RaceStart, tier)

\* the instants at which the racing handlers took their currentTime, as
\* offsets from the first instant at which every tier's cooldown has elapsed
RaceOffsets ==
  {0} \cup { tierLimits[t].cooldownMinutes : t \in DOMAIN tierLimits }
      \cup { 2 * tierLimits.free.cooldownMinutes }

RaceTimes(tier) ==
  { RaceLastGeneration(tier) + tierLimits.free.cooldownMinutes + d : d \in RaceOffsets }

\* requests 1..n are at their call of atomicGenerationUpdate, each with the
\* currentTime it took; every one of them passed the pre-check on the row
InitRace ==
  \E tier \in Tiers, oneSlotLeft \in BOOLEAN, n \in Requests :
  \E times \in [1 .. n -> RaceTimes(tier)] :
    /\ users = [u \in Users |->
                  IF u \in Clients THEN RaceRow(tier, oneSlotLeft)
                  ELSE NewUser(RaceStart, "starter")]
    /\ raced = ViewOf(RaceRow(tier, oneSlotLeft))
    /\ req = [i \in Requests |->
                IF i <= n
                THEN [ IdleRequest EXCEPT
                         !.pc = "reserve",
                         !.kind = "generate",
                         !.userId = CHOOSE u \in Clients : TRUE,
                         !.originalDailyCredits = RaceRow(tier, oneSlotLeft).dailyCredits,
                         !.originalLastGenerationTime =
                             RaceRow(tier, oneSlotLeft).lastGenerationTime,
                         !.currentTime = times[i] ]
                ELSE IdleRequest]
    /\ clock = RaceLastGeneration(tier) + 3 * tierLimits.free.cooldownMinutes
    /\ sessionUser = [u \in Users |-> RaceStart]
    /\ signals = [u \in Users |-> 0]
    /\ resetLog = [u \in Users |-> [d \in Days |-> 0]]
    /\ SharingIdle

NextRace == \E i \in Requests : Reserve(i, TRUE)

SpecRace == InitRace /\ [][NextRace]_vars

\* the racing attempts, those that ran, and those that observed success=true
Racers == { i \in Requests : req[i].pc # "idle" }
RaceOver == \A i \in Racers : req[i].reserve # "none"
Successes == { i \in Racers : req[i].reserve = "success" }
Min(a, b) == IF a <= b THEN a ELSE b
RaceLimit == limitsOf(CHOOSE u \in Clients : TRUE).dailyLimit
RaceCooldown == limitsOf(CHOOSE u \in Clients : TRUE).cooldownMinutes

(* --------------- one request at a time, for any stored tier ------------ *)
\* values that the column users.subscription_tier (a varchar) can hold
StoredTiers == Tiers \cup InheritedKeys

\* replit.md: the monthly signals of the tiers that have a monthly limit
\* (schema.ts: max_monthly_credits defaults to the free tier's 10)
monthlySignals == [ free |-> 10, starter |-> 60 ]

\* values of users.monthly_credits at the start: nothing used this month,
\* one generation left under the free tier's monthly limit, none left
MonthlyUsed == { 0, monthlySignals.free - 1, monthlySignals.free }

\* a row whose daily quota is used up: reset at the start of the first day,
\* the last generation at the initial instant
ExhaustedRow(tier, used) ==
  [ NewUser(0, tier) EXCEPT !.dailyCredits = userTierLimits(tier).dailyLimit,
                            !.monthlyCredits = used,
                            !.lastGenerationTime = StartClock ]

\* the client's row carries some stored tier and some monthly usage; its
\* daily counters are those of a row after its daily reset, or those of a
\* row whose daily quota is used up
InitTier ==
  /\ \E tier \in StoredTiers, used \in MonthlyUsed, exhausted \in BOOLEAN :
       /\ exhausted => /\ userTierLimits(tier).dailyLimit # UNDEFINED
                        /\ used >= userTierLimits(tier).dailyLimit
       /\ users = [u \in Users |->
                    IF u \in Clients
                    THEN IF exhausted THEN ExhaustedRow(tier, used)
                         ELSE [ NewUser(StartClock, tier) EXCEPT !.monthlyCredits = used ]
                    ELSE NewUser(StartClock, "starter")]
  /\ clock = StartClock
  /\ sessionUser = [u \in Users |-> StartClock]
  /\ req = [i \in Requests |-> IdleRequest]
  /\ signals = [u \in Users |-> 0]
  /\ resetLog = [u \in Users |-> [d \in Days |-> 0]]
  /\ raced = NoView
  /\ SharingIdle

\* no request is under way
Quiet == \A j \in Requests : req[j].pc \in {"idle", "done"}

\* a generate-signal request that arrives while no other one is under way
GetUserAlone(i, u, marketOpen) == Quiet /\ GetUser(i, u, marketOpen)

NextTier ==
  \/ Tick
  \/ \E i \in Requests, u \in Clients, open \in BOOLEAN : GetUserAlone(i, u, open)
  \/ \E i \in Requests : ResetDaily(i)
  \/ \E i \in Requests, storeOk \in BOOLEAN : Reserve(i, storeOk)
  \/ \E i \in Requests : RaceLost(i)
  \/ \E i \in Requests, generated \in BOOLEAN : CallModel(i, generated)
  \/ \E i \in Requests, storeOk \in BOOLEAN : Revert(i, storeOk)
  \/ \E i \in Requests : CreateSignal(i)

SpecTier == InitTier /\ [][NextTier]_vars

(* ------------------- the scorer as a pure function --------------------- *)
InitScore ==
  /\ GateIdle
  /\ ledger = <<>>
  /\ auditLog = <<>>
  /\ sreq = IdleSharingRequest
  /\ scored = NoScore

\* one more session in the list, and the detection for the longer list
AddSession(s) ==
  /\ Len(ledger) < MaxSessions
  /\ ledger' = Append(ledger, s)
  /\ scored' = scoreOf(ledger', scored.currentDeviceId,
                       scored.detectionResult.confidence)
  /\ UNCHANGED <<auditLog, sreq>>
  /\ UNCHANGED gateVars

NextScore == \E s \in SessionInfos : AddSession(s)

SpecScore == InitScore /\ [][NextScore]_vars

(* --------------- calls of the service over the ledger ------------------ *)
InitLedger == GateIdle /\ SharingIdle

\* time passes between two calls
Pass ==
  /\ sreq.pc \in {"idle", "done"}
  /\ clock + LedgerStep <= StartClock + MaxTicks * LedgerStep
  /\ clock' = clock + LedgerStep
  /\ UNCHANGED <<users, sessionUser, req, signals, resetLog, raced, sharingVars>>

\* routes.ts: a request reaches sharingDetectionMiddleware, POST
\* /api/tracking/device-action or GET /api/security/sharing-check, or
\* shouldBlockRequest is called
Arrive(kind, origin) ==
  /\ sreq.pc \in {"idle", "done"}
  /\ Len(auditLog) + 2 <= MaxAuditRecords
  /\ sreq' = [ IdleSharingRequest EXCEPT
                 !.kind = kind,
                 !.origin = origin,
                 !.pc = IF kind = "track" THEN "track"
                        ELSE IF kind = "middleware" THEN "update"
                        ELSE "detect" ]
  /\ UNCHANGED <<ledger, auditLog, scored>>
  /\ UNCHANGED gateVars

\* routes.ts: storage.updateSessionActivity with the device fingerprint in
\* POST /api/tracking/device-action; an error ends the request with 500
Track(stored) ==
  /\ sreq.pc = "track"
  /\ IF stored
     THEN /\ ledger' = updateSessionActivity(ledger, sreq.origin, clock, TRUE)
          /\ sreq' = [ sreq EXCEPT !.pc = "update" ]
     ELSE /\ sreq' = [ sreq EXCEPT !.pc = "done", !.status = 500 ]
          /\ UNCHANGED ledger
  /\ UNCHANGED <<auditLog, scored>>
  /\ UNCHANGED gateVars

\* sharingDetectionService.ts: detectAndEnforce, storage.updateSessionActivity;
\* an error is caught by detectAndEnforce
Update(stored) ==
  /\ sreq.pc = "update"
  /\ IF stored
     THEN /\ ledger' = updateSessionActivity(ledger, sreq.origin, clock, FALSE)
          /\ sreq' = [ sreq EXCEPT !.pc = "detect" ]
     ELSE /\ sreq' = respondSharing(
                       [ sreq EXCEPT !.updateRaised = TRUE,
                                     !.detectionResult =
                                        errorResult("Error during enforcement") ])
          /\ UNCHANGED ledger
  /\ UNCHANGED <<auditLog, scored>>
  /\ UNCHANGED gateVars

\* sharingDetectionService.ts: what a caller does with the result of
\* detectSharing: shouldBlockRequest returns, detectAndEnforce enters
\* enforcePolicy when sharing is detected, the sharing-check route always;
\* enforcePolicy returns at once when no sharing is detected
afterDetect(r, detectionResult) ==
  LET r1 == [ r EXCEPT !.detectionResult = detectionResult ] IN
  IF r.kind = "shouldBlock"
  THEN [ r1 EXCEPT !.pc = "done", !.block = blocksOn(detectionResult) ]
  ELSE IF r.kind = "sharingCheck" /\ ~detectionResult.isSharing
       THEN policyReturns([ r1 EXCEPT !.branch = policyBranch(detectionResult) ],
                          "allow")
       ELSE IF detectionResult.isSharing
            THEN [ r1 EXCEPT !.pc = "logDetection",
                             !.branch = policyBranch(detectionResult) ]
            ELSE respondSharing(r1)

\* sharingDetectionService.ts: detectSharing, the read of the ledger and
\* the scoring
Detect(answered) ==
  LET read == [ raised   |-> ~answered,
                sessions |-> getRecentUserSessions(ledger, clock) ]
  IN
  /\ sreq.pc = "detect"
  /\ sreq' = afterDetect([ sreq EXCEPT !.readRaised = ~answered ],
                         detectSharing(read, sreq.origin.deviceId, clock))
  /\ UNCHANGED <<ledger, auditLog, scored>>
  /\ UNCHANGED gateVars

\* sharingDetectionService.ts: enforcePolicy, the audit record of the
\* detection, then the choice of the branch
LogDetection(stored) ==
  /\ sreq.pc = "logDetection"
  /\ IF stored
     THEN /\ auditLog' = Append(auditLog, "account_sharing")
          /\ sreq' =
               LET r == [ sreq EXCEPT !.audits = @ + 1 ] IN
               IF sreq.branch \in {"terminate", "restrict"}
               THEN [ r EXCEPT !.pc = "terminate" ]
               ELSE IF sreq.branch = "warn"
                    THEN [ r EXCEPT !.pc = "logOutcome" ]
                    ELSE policyReturns(r, "allow")
     ELSE /\ sreq' = policyRaises(sreq)
          /\ UNCHANGED auditLog
  /\ UNCHANGED <<ledger, scored>>
  /\ UNCHANGED gateVars

\* sharingDetectionService.ts: enforcePolicy, storage.terminateAllUserSessions
\* or storage.terminateOldestUserSessions
Terminate(stored) ==
  /\ sreq.pc = "terminate"
  /\ IF stored
     THEN /\ ledger' = IF sreq.branch = "terminate"
                       THEN terminateAllUserSessions(ledger)
                       ELSE terminateOldestUserSessions(ledger, MAX_ALLOWED_SESSIONS)
          /\ sreq' = [ sreq EXCEPT !.pc = "logOutcome",
                                   !.terminated = Len(ledger) - Len(ledger') ]
     ELSE /\ sreq' = policyRaises([ sreq EXCEPT !.writeRaised = TRUE ])
          /\ UNCHANGED ledger
  /\ UNCHANGED <<auditLog, scored>>
  /\ UNCHANGED gateVars

\* sharingDetectionService.ts: enforcePolicy, the audit record of the
\* enforcement and the returned action
LogOutcome(stored) ==
  /\ sreq.pc = "logOutcome"
  /\ IF stored
     THEN /\ auditLog' = Append(auditLog, outcomeRecord(sreq.branch))
          /\ sreq' = policyReturns([ sreq EXCEPT !.audits = @ + 1 ], sreq.branch)
     ELSE /\ sreq' = policyRaises(sreq)
          /\ UNCHANGED auditLog
  /\ UNCHANGED <<ledger, scored>>
  /\ UNCHANGED gateVars

NextLedger ==
  \/ Pass
  \/ \E kind \in CallKinds, origin \in Origins : Arrive(kind, origin)
  \/ \E stored \in BOOLEAN : Track(stored)
  \/ \E stored \in BOOLEAN : Update(stored)
  \/ \E answered \in BOOLEAN : Detect(answered)
  \/ \E stored \in BOOLEAN : LogDetection(stored)
  \/ \E stored \in BOOLEAN : Terminate(stored)
  \/ \E stored \in BOOLEAN : LogOutcome(stored)

SpecLedger == InitLedger /\ [][NextLedger]_vars

(* ------------ the middleware chain of POST /api/v1/generate-signal ------ *)
\* One request at a time passes sharingDetectionMiddleware and, unless the
\* middleware answers, the handler.  The reservation of a request that runs
\* alone on a row of a known tier affects a row whenever the pre-check
\* passed, so the race-lost branch of the handler has no step here.

\* routes.ts: a generate-signal request reaches sharingDetectionMiddleware
Middleware(i, origin) ==
  /\ MayStart(i)
  /\ Quiet
  /\ sreq.pc = "idle"
  /\ Arrive("middleware", origin)

\* a faulty middleware: next() is called whatever the enforcement
middlewareAlwaysNext(r) == FALSE

\* routes.ts: sharingDetectionMiddleware answers 403 when
\* detectionResult.enforcement?.blocked holds
middlewareDenies(r) == r.status = 403

\* routes.ts: the middleware answers 403 and the handler is not called
Denied(i, u) ==
  /\ MayStart(i)
  /\ sreq.pc = "done"
  /\ middlewareDenies(sreq)
  /\ req' = [req EXCEPT ![i] =
               Respond([ IdleRequest EXCEPT !.kind = "generate", !.userId = u ],
                       403, "sharingBlocked")]
  /\ sreq' = [ sreq EXCEPT !.pc = "idle" ]
  /\ UNCHANGED <<users, sessionUser, clock, signals, resetLog, raced,
                 ledger, auditLog, scored>>

\* routes.ts: the middleware calls next() and the handler is entered
Proceed(i, u, marketOpen) ==
  /\ MayStart(i)
  /\ sreq.pc = "done"
  /\ ~middlewareDenies(sreq)
  /\ enterHandler(i, u, marketOpen)
  /\ sreq' = [ sreq EXCEPT !.pc = "idle" ]
  /\ UNCHANGED <<users, sessionUser, clock, signals, resetLog, raced,
                 ledger, auditLog, scored>>

NextChain ==
  \/ Tick
  \/ \E i \in Requests, origin \in Origins : Middleware(i, origin)
  \/ \E stored \in BOOLEAN : Update(stored)
  \/ \E answered \in BOOLEAN : Detect(answered)
  \/ \E stored \in BOOLEAN : LogDetection(stored)
  \/ \E stored \in BOOLEAN : Terminate(stored)
  \/ \E stored \in BOOLEAN : LogOutcome(stored)
  \/ \E i \in Requests, u \in Clients : Denied(i, u)
  \/ \E i \in Requests, u \in Clients, open \in BOOLEAN : Proceed(i, u, open)
  \/ \E i \in Requests : ResetDaily(i)
  \/ \E i \in Requests, storeOk \in BOOLEAN : Reserve(i, storeOk)
  \/ \E i \in Requests, generated \in BOOLEAN : CallModel(i, generated)
  \/ \E i \in Requests, storeOk \in BOOLEAN : Revert(i, storeOk)
  \/ \E i \in Requests : CreateSignal(i)

SpecChain == InitLedger /\ [][NextChain]_vars

(* -------------------------------- claims ------------------------------- *)
\* C1 (as stated): N concurrent reservation attempts against a user with
\* dailyUsed = 0 end with exactly min(N, L) attempts observing success=true.
C1_ExactlyMinNL ==
  (RaceOver /\ raced.dailyCredits = 0)
    => Cardinality(Successes) = Min(Cardinality(Racers), RaceLimit)

\* C1 (amended): of N concurrent reservation attempts against a user with
\* dailyUsed = 0 never more than min(N, L) observe success=true, and once all
\* have run at least one did.
C1_AtMostMinNL ==
  raced.dailyCredits = 0 =>
    /\ Cardinality(Successes) <= Min(Cardinality(Racers), RaceLimit)
    /\ RaceOver => Cardinality(Successes) >= 1

\* three attempts ran from dailyUsed = 0 and the daily limit stopped the third
C1_Witness ==
  /\ RaceOver
  /\ raced.dailyCredits = 0
  /\ Cardinality(Racers) = 3
  /\ Cardinality(Successes) = RaceLimit
  /\ RaceLimit < Cardinality(Racers)

\* C4: with exactly one daily slot left and the cooldown elapsed, of two
\* requests racing on atomicGenerationUpdate exactly one observes success=true.
C4_OneSlotOneWinner ==
  ( /\ RaceOver
    /\ Cardinality(Racers) = 2
    /\ raced.dailyCredits = RaceLimit - 1
    /\ \A i \in Racers : req[i].currentTime - raced.lastGenerationTime >= RaceCooldown )
    => Cardinality(Successes) = 1

\* two requests raced for the last slot, each of them late enough for the
\* other's timestamp as well, and one lost
C4_Witness ==
  /\ RaceOver
  /\ Cardinality(Racers) = 2
  /\ raced.dailyCredits = RaceLimit - 1
  /\ raced.dailyCredits > 0
  /\ req[2].currentTime - req[1].currentTime >= RaceCooldown
  /\ Cardinality(Successes) = 1
  /\ \E i \in Racers : req[i].reserve = "norow"

\* C5: atomicGenerationUpdate returns success=true, adds exactly 1 to dailyUsed
\* and sets lastGenerationAt = now if and only if the stored row has
\* dailyUsed < dailyLimit and (lastGenerationAt is null or
\* now - lastGenerationAt >= cooldownMinutes); otherwise it returns
\* success=false and leaves dailyUsed, the monthly counter and lastGenerationAt
\* as they were.
C5_ReserveContract ==
  [][ \A i \in Requests :
        (req[i].pc = "reserve" /\ req'[i].reserve \in {"success", "norow"}) =>
          LET u   == req[i].userId
              now == req[i].currentTime
              entitled ==
                /\ users[u].dailyCredits < limitsOf(u).dailyLimit
                /\ \/ users[u].lastGenerationTime = NULL
                   \/ now - users[u].lastGenerationTime >= limitsOf(u).cooldownMinutes
          IN
          /\ (req'[i].reserve = "success") <=> entitled
          /\ entitled =>
               /\ users'[u].dailyCredits = users[u].dailyCredits + 1
               /\ users'[u].lastGenerationTime = now
          /\ ~entitled =>
               /\ users'[u].dailyCredits = users[u].dailyCredits
               /\ users'[u].monthlyCredits = users[u].monthlyCredits
               /\ users'[u].lastGenerationTime = users[u].lastGenerationTime
    ]_vars

\* one reservation was granted exactly one cooldown after the previous one,
\* and another one was refused
C5_Witness ==
  \E i, j, k \in Requests :
    /\ req[i].reserve = "success" /\ req[j].reserve = "success"
    /\ req[i].userId = req[j].userId
    /\ req[j].currentTime - req[i].currentTime = limitsOf(req[i].userId).cooldownMinutes
    /\ req[k].reserve = "norow"

\* a reservation that succeeded and was not rolled back: the language model
\* answered and the signal was stored
Kept(i) ==
  /\ req[i].kind = "generate"
  /\ req[i].reserve = "success"
  /\ req[i].stored
  /\ ~req[i].reverted

\* C2: inside one calendar day the reservations of a user that succeeded and
\* were not rolled back never outnumber the tier's dailyLimit.
C2_AtMostLimitPerDay ==
  \A u \in Users, d \in Days :
    Cardinality({ i \in Requests :
                    /\ Kept(i)
                    /\ req[i].userId = u
                    /\ CalendarDay(req[i].currentTime) = d })
      <= limitsOf(u).dailyLimit

\* C3: no two successful reservations of a user carry timestamps less than
\* cooldownMinutes apart; stated for the pairs that no legitimate reset or
\* rollback separates: both reservations kept, both on the same calendar day.
C3_CooldownBetweenReservations ==
  \A i, j \in Requests :
    ( /\ i # j
      /\ Kept(i) /\ Kept(j)
      /\ req[i].userId = req[j].userId
      /\ CalendarDay(req[i].currentTime) = CalendarDay(req[j].currentTime)
      /\ req[i].currentTime <= req[j].currentTime )
      => req[j].currentTime - req[i].currentTime
           >= limitsOf(req[i].userId).cooldownMinutes

\* C6: for every user and calendar day the counters are reset at most once,
\* whatever the requests that trigger the reset.
C6_ResetOncePerDay ==
  \A u \in Users, d \in Days : resetLog[u][d] <= 1

\* C7: a call of resetDailyCredits that follows another one of the same
\* calendar day changes neither dailyUsed nor lastGenerationAt.
C7_ResetIdempotent ==
  [][ \A u \in Users :
        ( /\ resetLog'[u] # resetLog[u]
          /\ resetLog[u][CalendarDay(clock)] >= 1 )
        => /\ users'[u].dailyCredits = users[u].dailyCredits
           /\ users'[u].lastGenerationTime = users[u].lastGenerationTime
    ]_vars

\* C8: the rollback of a request during which no other request wrote the
\* user's counters, and beside which none is under way, leaves dailyUsed and
\* lastGenerationAt at their values immediately before that request's
\* reservation, and leaves every other user's row untouched.
C8_RollbackRestores ==
  [][ \A i \in Requests :
        ( /\ req[i].pc = "revert"
          /\ req'[i].reverted
          /\ ~req[i].interfered
          /\ \A j \in Requests \ {i} : req[j].pc \in {"idle", "done"} )
        => /\ users'[req[i].userId].dailyCredits = req[i].pre.dailyCredits
           /\ users'[req[i].userId].lastGenerationTime = req[i].pre.lastGenerationTime
           /\ \A v \in Users \ {req[i].userId} : users'[v] = users[v]
    ]_vars

\* C9: when request B reserved on top of request A's reservation and holds
\* the latest timestamp, A's rollback takes A's increment away and nothing
\* else: dailyUsed still counts B's reservation and lastGenerationAt is
\* still B's timestamp.
C9_RollbackKeepsLaterReservation ==
  [][ \A a, b \in Requests :
        ( /\ a # b
          /\ req[a].pc = "revert"
          /\ req'[a].reverted
          /\ req[b].userId = req[a].userId
          /\ req[b].pc \in {"llm", "create"}
          /\ req[b].pre.lastGenerationTime = req[a].currentTime
          /\ req[b].pre.dailyCredits = req[a].pre.dailyCredits + 1
          /\ users[req[a].userId].lastGenerationTime = req[b].currentTime
          /\ users[req[a].userId].dailyCredits = req[b].pre.dailyCredits + 1 )
        => /\ users'[req[a].userId].dailyCredits
                = users[req[a].userId].dailyCredits - 1
           /\ users'[req[a].userId].lastGenerationTime = req[b].currentTime
    ]_vars

\* C10: a request whose atomicGenerationUpdate raised an error or affected no
\* row never calls the language model, stores no signal and ends with a
\* failure response.
C10_FailClosed ==
  \A i \in Requests :
    req[i].reserve \in {"error", "norow"} =>
      /\ req[i].llmCalls = 0
      /\ ~req[i].stored
      /\ req[i].pc \in {"raceLost", "done"}
      /\ req[i].pc = "done" => req[i].status \in {429, 500}

\* the store raised an error during the reservation of a request that was
\* entitled to generate, and the request ended with status 500
C10_Witness ==
  \E i \in Requests :
    /\ req[i].reserve = "error"
    /\ req[i].pc = "done"
    /\ req[i].status = 500
    /\ users[req[i].userId].dailyCredits = 0
    /\ signals[req[i].userId] = 0

\* C11: a generate-signal request calls atomicGenerationUpdate at most once,
\* also after success=false, and calls the language model at most once and
\* only after its own reservation returned success=true.
C11_ReserveOnceModelOnce ==
  \A i \in Requests :
    /\ req[i].reserveCalls <= 1
    /\ req[i].llmCalls <= 1
    /\ req[i].llmCalls > 0 => req[i].reserve = "success"

\* one request lost the race and answered after its single reservation
\* attempt, another one reserved and called the language model once
C11_Witness ==
  \E i, j \in Requests :
    /\ req[i].reserve = "norow" /\ req[i].pc = "done" /\ req[i].reserveCalls = 1
    /\ req[j].reserve = "success" /\ req[j].llmCalls = 1

AllActive ==
  \A s \in Range(ledger) : ScoreNow - s.lastActive < SESSION_TIMEOUT_HOURS * 60

\* C13: enforcePolicy decides by first match over (confidence,
\* activeSessionCount): terminate when confidence >= 0.8, otherwise restrict
\* when confidence >= 0.6 or activeSessionCount > 2, otherwise warn when
\* confidence >= 0.4, otherwise allow, for every assessment of detectSharing.
C13_FirstMatchDecision ==
  LET r == scored.detectionResult IN
  scored.action =
    IF r.confidence >= 8 THEN "terminate"
    ELSE IF r.confidence >= 6 \/ r.activeSessions > MAX_ALLOWED_SESSIONS THEN "restrict"
    ELSE IF r.confidence >= 4 THEN "warn"
    ELSE "allow"

\* the case of C18: three active sessions, three addresses, three devices,
\* one 5-minute window
ThreeOfEach ==
  /\ Len(ledger) = 3
  /\ AllActive
  /\ Cardinality({ s.deviceId : s \in Range(ledger) }) = 3
  /\ Cardinality({ s.ipAddress : s \in Range(ledger) }) = 3
  /\ Cardinality({ getTimeWindowKey(s.lastActive, WindowMinutes) : s \in Range(ledger) }) = 1

\* C18: three active sessions of one user from three addresses and three
\* devices within one 5-minute window give confidence >= 0.9 and
\* isSharing = true, and enforcePolicy chooses terminate.
C18_ThreeDevicesTerminate ==
  ThreeOfEach =>
    /\ scored.detectionResult.confidence >= 9
    /\ scored.detectionResult.isSharing
    /\ scored.action = "terminate"

\* three sessions as in C18 have been scored: all four counting factors
\* reported, the request blocked
C18_Witness ==
  /\ ThreeOfEach
  /\ scored.detectionResult.activeSessions = 3
  /\ Len(scored.detectionResult.reason) = 4
  /\ scored.block

\* the fingerprints of two sessions differ in the timezone and nowhere else
DifferOnlyInTimezone(s1, s2) ==
  /\ s1.deviceFingerprint.present /\ s2.deviceFingerprint.present
  /\ s1.deviceFingerprint.timezone # s2.deviceFingerprint.timezone
  /\ [ s1.deviceFingerprint EXCEPT !.timezone = "" ]
       = [ s2.deviceFingerprint EXCEPT !.timezone = "" ]

\* the case of C19: two active sessions with the same address and the same
\* browser and operating system, the fingerprints differing in the timezone
SameBrowserOtherZone ==
  /\ Len(ledger) = 2
  /\ AllActive
  /\ ledger[1].ipAddress = ledger[2].ipAddress
  /\ ledger[1].userAgent = ledger[2].userAgent
  /\ DifferOnlyInTimezone(ledger[1], ledger[2])

C20_MonotonicConfidence ==
  scored.previous # NULL => scored.detectionResult.confidence >= scored.previous

\* a third active session with a new device and a new address was added to
\* two sessions and raised the confidence
C20_Witness ==
  /\ Len(ledger) = 3
  /\ AllActive
  /\ ledger[3].deviceId \notin { ledger[1].deviceId, ledger[2].deviceId }
  /\ ledger[3].ipAddress \notin { ledger[1].ipAddress, ledger[2].ipAddress }
  /\ scored.previous = 4
  /\ scored.detectionResult.confidence = 10

\* C21: calculateDeviceSimilarity(a, b) = calculateDeviceSimilarity(b, a) for
\* every pair of sessions a and b, with or without fingerprints.
C21_SimilaritySymmetric ==
  \A i, j \in 1 .. Len(ledger) : scored.similarity[i][j] = scored.similarity[j][i]

\* the similarity of a session with a fingerprint and a session without one
\* at a neighbouring address of its subnet has been computed both ways
C21_Witness ==
  \E i, j \in 1 .. Len(ledger) :
    /\ ledger[i].deviceFingerprint.present
    /\ ~ledger[j].deviceFingerprint.present
    /\ ledger[i].ipAddress # ledger[j].ipAddress
    /\ scored.similarity[i][j] = [num |-> 1, den |-> 20]
    /\ scored.similarity[j][i] = [num |-> 1, den |-> 20]

\* C22: a user whose tier is not one of the known tiers is given the limits
\* of the free tier, which has the lowest daily limit and the longest cooldown
\* of the three tiers, and the entitlement check of such a user's request
\* runs: the request ends with status 500 only when the store raised at the
\* reservation or the language model was called.
C22_UnknownTierIsFree ==
  \A i \in Requests :
    LET u == req[i].userId IN
    ( /\ req[i].kind = "generate"
      /\ req[i].pc = "done"
      /\ req[i].reason # "marketClosed"
      /\ users[u].subscriptionTier \notin DOMAIN tierLimits )
    => /\ limitsOf(u) = tierLimits.free
       /\ \A t \in DOMAIN tierLimits :
            /\ tierLimits.free.dailyLimit <= tierLimits[t].dailyLimit
            /\ tierLimits.free.cooldownMinutes >= tierLimits[t].cooldownMinutes
       /\ req[i].status = 500 => (req[i].reserve = "error" \/ req[i].llmCalls > 0)

\* C23: credits are limited per month as well as per day: the monthly counter
\* of a user of a tier with a monthly limit never exceeds that limit (10 for
\* the free tier), a reservation being refused once the counter has reached
\* it, and the daily counter never exceeds the daily limit.
C23_MonthlyLimit ==
  \A u \in Clients :
    users[u].subscriptionTier \in DOMAIN monthlySignals
    => /\ users[u].monthlyCredits <= monthlySignals[users[u].subscriptionTier]
       /\ users[u].dailyCredits <= limitsOf(u).dailyLimit

\* C24: calculateDeviceSimilarity never returns more than 0.35, which is
\* below the clustering threshold 0.7; groupSimilarDevices produces singleton
\* groups only, suspiciousDevices is empty in every assessment, and the
\* factor of similar device fingerprints adds nothing to the confidence.
C24_NoDeviceGroupEverForms ==
  /\ \A i, j \in 1 .. Len(ledger) :
       /\ scored.similarity[i][j].num * 100 <= 35 * scored.similarity[i][j].den
       /\ scored.similarity[i][j].num * 10
            < DEVICE_SIMILARITY_THRESHOLD * scored.similarity[i][j].den
  /\ \A g \in 1 .. Len(scored.deviceGroups) : Len(scored.deviceGroups[g]) = 1
  /\ scored.detectionResult.suspiciousDevices = <<>>
  /\ "Similar device fingerprints detected" \notin Range(scored.detectionResult.reason)
  /\ LET active == filterActiveSessions(ledger, ScoreNow)
         devices == analyzeDevicePatterns(active, scored.currentDeviceId)
     IN scored.detectionResult.confidence =
          calculateSharingConfidence([ devices EXCEPT !.suspiciousDevices = <<>> ],
                                     analyzeSimultaneousAccess(active), Len(active))

\* two active sessions of two devices with the same address, the same user
\* agent and the same complete fingerprint have been scored: similarity 1/3,
\* two groups of one device each
C24_Witness ==
  /\ Len(ledger) = 2
  /\ AllActive
  /\ ledger[1].deviceId # ledger[2].deviceId
  /\ ledger[1].ipAddress = ledger[2].ipAddress
  /\ ledger[1].userAgent = ledger[2].userAgent
  /\ ledger[1].deviceFingerprint.present
  /\ ledger[1].deviceFingerprint = ledger[2].deviceFingerprint
  /\ scored.similarity[1][2] = [num |-> 90, den |-> 270]
  /\ Len(scored.deviceGroups) = 2

C26_TerminateBlocksAndClears ==
  ( /\ sreq.pc = "done"
    /\ sreq.kind \in {"middleware", "track"}
    /\ sreq.branch = "terminate" )
  => /\ sreq.terminated >= 1
     /\ sreq.blocked
     /\ sreq.kind = "middleware" => sreq.status = 403
     /\ ledger = <<>>

\* the first audit write of enforcePolicy raised in a call of detectAndEnforce
FirstAuditFailed ==
  /\ sreq.pc = "done"
  /\ sreq.kind \in {"middleware", "track"}
  /\ sreq.enforce = "raised"
  /\ sreq.audits = 0
  /\ ~sreq.writeRaised

\* C28: if the first audit write of enforcePolicy fails, no session is
\* terminated and detectAndEnforce returns an unblocked assessment with
\* isSharing = false and confidence 0: the request that would have been
\* terminated or restricted goes on.
C28_FailedAuditSkipsEnforcement ==
  FirstAuditFailed =>
    /\ sreq.branch \in {"terminate", "restrict"}
    /\ sreq.terminated = 0
    /\ Len(ledger) > MAX_ALLOWED_SESSIONS
    /\ ~sreq.blocked
    /\ ~sreq.detectionResult.isSharing
    /\ sreq.detectionResult.confidence = 0
    /\ sreq.status = 200

\* the middleware let a request through whose assessment called for
\* terminate, after the first audit write had raised; the three sessions are
\* still in the ledger
C28_Witness ==
  /\ FirstAuditFailed
  /\ sreq.kind = "middleware"
  /\ sreq.branch = "terminate"
  /\ sreq.status = 200
  /\ Len(filterActiveSessions(ledger, clock)) = 3

\* C29: the warn and allow outcomes of enforcePolicy mutate no session: the
\* sessions of the ledger are the same before and after the call, no session
\* is terminated and the request is not blocked.
C29_AllowLeavesLedger ==
  [][ ( /\ sreq.pc \in {"detect", "logDetection", "logOutcome"}
        /\ sreq'.pc = "done"
        /\ sreq'.enforce = "returned"
        /\ sreq'.policy \in {"warn", "allow"} )
      => /\ ledger' = ledger
         /\ sreq'.terminated = 0
         /\ ~sreq'.blocked
         /\ sreq'.status = 200
    ]_vars

\* enforcePolicy returned allow while two sessions were active, and both are
\* still in the ledger
C29_Witness ==
  /\ sreq.pc = "done"
  /\ sreq.enforce = "returned"
  /\ sreq.policy = "allow"
  /\ sreq.detectionResult.activeSessions = 2
  /\ Len(ledger) = 2
  /\ ~sreq.blocked

\* C30: in the generate-signal handler, when the stored lastCreditReset falls
\* on an earlier calendar day than now, the counters are reset to
\* dailyCredits = 0 and lastGenerationTime = null before atomicGenerationUpdate
\* is attempted, and the reservation of a user who had used up the quota of
\* the previous day succeeds.
C30_ResetBeforeReservation ==
  [][ \A i \in Requests :
        LET r == req[i]
            u == r.userId
        IN
        \* the handler finds the day stale: the reset comes next
        /\ ( /\ r.pc = "idle" /\ req'[i].kind = "generate"
             /\ req'[i].reason # "marketClosed"
             /\ CalendarDay(users[u].lastCreditReset) < CalendarDay(clock) )
           => req'[i].pc = "reset"
        \* the reset writes the counters, and no reservation came before it
        /\ (r.pc = "reset" /\ req'[i].pc # "reset")
           => /\ users'[u].dailyCredits = 0
              /\ users'[u].lastGenerationTime = NULL
              /\ r.reserveCalls = 0
              /\ req'[i].didReset
        \* the reservation is attempted on a row of the day and succeeds for
        \* the user whose quota was used up
        /\ (r.pc = "reserve" /\ req'[i].pc # "reserve")
           => /\ CalendarDay(users[u].lastCreditReset) >= CalendarDay(r.currentTime)
              /\ ( /\ r.didReset
                   /\ atLeast(r.originalDailyCredits, limitsOf(u).dailyLimit)
                   /\ req'[i].reserve # "error" )
                 => /\ req'[i].reserve = "success"
                    /\ users'[u].dailyCredits = 1
    ]_vars

\* a request of the new day found the quota of the previous day used up,
\* reset the counters and has just reserved
C30_Witness ==
  \E i \in Requests :
    /\ req[i].kind = "generate" /\ req[i].pc = "llm"
    /\ req[i].didReset
    /\ req[i].originalDailyCredits = limitsOf(req[i].userId).dailyLimit
    /\ req[i].originalLastGenerationTime = StartClock
    /\ req[i].reserve = "success"
    /\ users[req[i].userId].dailyCredits = 1
    /\ users[req[i].userId].lastGenerationTime = req[i].currentTime

\* C31: a generate-signal request that the sharing middleware blocks
\* (enforcement.blocked = true) never reaches the Generation Gate: while the
\* middleware works on a request no counter of the users table, no reset
\* record and no signal changes; the step that a request takes after a
\* blocked result ends it with 403 and starts no handler; a request answered 403 has
\* performed no daily reset, no reservation and no language-model call.
C31_BlockedSkipsGate ==
  [][ /\ sreq.pc # "idle" =>
           /\ users' = users
           /\ resetLog' = resetLog
           /\ signals' = signals
      /\ (sreq.pc = "done" /\ sreq.kind = "middleware" /\ sreq.blocked
                                /\ req' # req) =>
           /\ \A i \in Requests : req'[i].pc \in {"idle", "done"}
           /\ \E i \in Requests : /\ req[i].pc = "idle"
                                   /\ req'[i].pc = "done"
                                   /\ req'[i].status = 403
      /\ \A i \in Requests :
           req'[i].status = 403 =>
             /\ ~req'[i].didReset
             /\ req'[i].reserveCalls = 0
             /\ req'[i].reserve = "none"
             /\ req'[i].llmCalls = 0
             /\ ~req'[i].reverted
             /\ ~req'[i].stored
    ]_vars

\* the third request of a user comes from a third device and is blocked,
\* after an earlier request of the same user reserved a generation
C31_Witness ==
  /\ \E i \in Requests : req[i].pc = "done" /\ req[i].status = 403
  /\ sreq.blocked
  /\ sreq.terminated = 3
  /\ users["u1"].dailyCredits = 1
  /\ users["u1"].monthlyCredits = 1

\* the requests of user u whose reservation affected a row, and those whose
\* rollback was executed
Reserved(u) == { i \in Requests : req[i].userId = u /\ req[i].reserve = "success" }
RolledBack(u) == { i \in Requests : req[i].userId = u /\ req[i].reverted }

\* C32: under every interleaving of reservation, rollback and daily reset the
\* monthly counter of a user equals its initial value (0 for a new row) plus
\* the number of successful reservations minus the number of rollbacks; it
\* never goes below its initial value, and a daily reset does not change it.
C32_MonthlyCounterBalance ==
  [][ /\ \A u \in Users :
           /\ users'[u].monthlyCredits =
                NewUser(StartClock, "free").monthlyCredits
                  + Cardinality(Reserved(u)') - Cardinality(RolledBack(u)')
           /\ users'[u].monthlyCredits >= NewUser(StartClock, "free").monthlyCredits
      /\ \A u \in Users :
           resetLog'[u] # resetLog[u] =>
             users'[u].monthlyCredits = users[u].monthlyCredits
    ]_vars

\* two reservations of the user succeeded, one of them was rolled back, and
\* a daily reset was executed after the first reservation
C32_Witness ==
  /\ Cardinality(Reserved("u1")) = 2
  /\ Cardinality(RolledBack("u1")) = 1
  /\ users["u1"].monthlyCredits = 1
  /\ \E i, j \in Requests :
        /\ req[i].reserve = "success"
        /\ req[j].didReset
        /\ req[j].reserve = "success"
        /\ i # j

\* C33: for a user whose tier does not change, 0 <= dailyCredits <=
\* dailyLimit of the tier holds in every reachable state, under every
\* interleaving of daily reset, atomic reservation and absolute-value rollback.
C33_DailyUsedWithinLimit ==
  \A u \in Users :
    /\ users[u].dailyCredits >= 0
    /\ users[u].dailyCredits <= limitsOf(u).dailyLimit

\* the counter stands at the limit after a rollback wrote a snapshot and a
\* daily reset was executed by some request
C33_Witness ==
  /\ users["u1"].dailyCredits = limitsOf("u1").dailyLimit
  /\ \E i \in Requests : req[i].reverted
  /\ \E j \in Requests : req[j].didReset

\* the rollback of request i raised: the language-model call failed after a
\* successful reservation and revertGenerationUpdate was not executed
RollbackFailed(i) ==
  /\ req[i].pc = "done"
  /\ req[i].reserve = "success"
  /\ req[i].llmCalls = 1
  /\ ~req[i].stored
  /\ ~req[i].reverted

\* C34: when the rollback itself fails after a failed language-model call,
\* the request is still answered as a failed generation (500), the
\* reservation is not retried, and the event is recorded as requiring
\* reconciliation: the request has written a record other than the two that
\* a failed language-model call and any other error of the handler write.
C34_FailedRollbackRecorded ==
  \A i \in Requests :
    RollbackFailed(i) =>
      /\ req[i].status = 500
      /\ req[i].reserveCalls = 1
      /\ \E k \in 1 .. Len(req[i].logged) :
           req[i].logged[k] \notin {"OpenAI generation failed", "Error generating signal"}

\* the positions of the scored list whose session is active at the instant
\* of the detection
ActiveNow ==
  { k \in 1 .. Len(ledger) :
      ledger[k].lastActive > ScoreNow - SESSION_TIMEOUT_HOURS * 60 }

\* the sum of the weights, in tenths, of the factors that the active
\* sessions of the scored list trigger
WeightsTriggered ==
  LET devices  == { ledger[k].deviceId : k \in ActiveNow }
      ips      == { ledger[k].ipAddress : k \in ActiveNow }
      browsers == { ledger[k].userAgent.browser : k \in ActiveNow } \ {""}
      systems  == { ledger[k].userAgent.os : k \in ActiveNow } \ {""}
      window(k) == ledger[k].lastActive \div WindowMinutes
      simultaneous ==
        \E k, l \in ActiveNow :
          /\ window(k) = window(l)
          /\ \/ ledger[k].deviceId # ledger[l].deviceId
             \/ ledger[k].ipAddress # ledger[l].ipAddress
  IN   (IF Cardinality(devices) > 2 THEN 3 ELSE 0)
     + (IF Cardinality(ips) > 2 THEN 2 ELSE 0)
     + (IF simultaneous THEN 4 ELSE 0)
     + (IF Cardinality(ActiveNow) > 2 THEN 5 ELSE 0)
     + (IF Cardinality(browsers) > 2 THEN 2 ELSE 0)
     + (IF Cardinality(systems) > 2 THEN 3 ELSE 0)
     + (IF scored.detectionResult.suspiciousDevices # <<>> THEN 6 ELSE 0)

\* C35: the confidence of an assessment is min(1.0, sum of the weights of the
\* triggered factors) with the weights 0.3 (distinct devices > 2), 0.2
\* (distinct addresses > 2), 0.4 (a simultaneous-access window), 0.5 (active
\* sessions > 2), 0.2 (distinct browsers > 2), 0.3 (distinct operating
\* systems > 2) and 0.6 (suspicious devices); it lies within [0, 1], and
\* isSharing holds exactly when confidence > 0.6 or active sessions > 2.
C35_ConfidenceIsCappedSum ==
  /\ scored.detectionResult.confidence =
       (IF WeightsTriggered <= 10 THEN WeightsTriggered ELSE 10)
  /\ scored.detectionResult.confidence \in 0 .. 10
  /\ scored.detectionResult.activeSessions = Cardinality(ActiveNow)
  /\ scored.detectionResult.isSharing <=>
       \/ scored.detectionResult.confidence > 6
       \/ Cardinality(ActiveNow) > 2

\* three active sessions of three devices, addresses, browsers and operating
\* systems in one window have been scored: the weights add up to 1.9 and the
\* confidence is 1.0
C35_Witness ==
  /\ Len(ledger) = 3
  /\ Cardinality(ActiveNow) = 3
  /\ WeightsTriggered = 19
  /\ scored.detectionResult.confidence = 10
  /\ scored.detectionResult.isSharing

\* the members of all groups, in the order of the groups
RECURSIVE Flatten(_)
Flatten(groups) ==
  IF groups = <<>> THEN <<>> ELSE Head(groups) \o Flatten(Tail(groups))

\* the active sessions of the scored list, in its order
ActiveList ==
  FilterSeq(ledger, [ s \in Range(ledger) |->
                        s.lastActive > ScoreNow - SESSION_TIMEOUT_HOURS * 60 ])

\* the first position of the list of sessions that carries device id d
FirstOf(sessions, d) ==
  CHOOSE k \in 1 .. Len(sessions) :
    /\ sessions[k].deviceId = d
    /\ \A j \in 1 .. k - 1 : sessions[j].deviceId # d

\* C36 (as stated): the clusters partition the active sessions, every active
\* session being a member of exactly one cluster, also when several sessions
\* share a deviceId.
C36_ClustersPartitionSessions ==
  LET active  == ActiveList
      members == Flatten(groupSimilarDevices(active))
  IN
  /\ Len(members) = Len(active)
  /\ \A k \in 1 .. Len(active) : \E n \in 1 .. Len(members) : members[n] = active[k]

\* C36 (amended): clustering is greedy and deterministic for a fixed input
\* order, and its clusters partition the device ids of the active sessions:
\* each device id occurs in exactly one cluster, through the first active
\* session that carries it, and later sessions of that device id are in no
\* cluster; the clusters come in the order of their first members; a member
\* other than the first is similar above the threshold to the first member of
\* its cluster and to the first member of no earlier cluster, and no first
\* member is similar to the first member of an earlier cluster.  When the
\* device ids of the active sessions are pairwise distinct the clusters
\* partition the sessions.
C36_ClustersPartitionDevices ==
  LET active  == ActiveList
      groups  == groupSimilarDevices(active)
      members == Flatten(groups)
      ids     == Flatten(scored.deviceGroups)
  IN
  /\ scored.deviceGroups = deviceIdsOf(groups)
  /\ Range(ids) = { active[k].deviceId : k \in 1 .. Len(active) }
  /\ Len(ids) = Cardinality(Range(ids))
  /\ \A n \in 1 .. Len(members) :
       members[n] = active[FirstOf(active, members[n].deviceId)]
  /\ \A g, h \in 1 .. Len(groups) :
       h < g =>
         /\ FirstOf(active, groups[h][1].deviceId) < FirstOf(active, groups[g][1].deviceId)
         /\ \A k \in 1 .. Len(groups[g]) : ~isSimilarDevice(groups[h][1], groups[g][k])
  /\ \A g \in 1 .. Len(groups) :
       \A k \in 2 .. Len(groups[g]) : isSimilarDevice(groups[g][1], groups[g][k])
  /\ Cardinality(Range(ids)) = Len(active) => Len(members) = Len(active)

\* three active sessions have been clustered, the first two of one device
\* with different addresses: two clusters, the second session in none
C36_Witness ==
  /\ Len(ledger) = 3
  /\ Cardinality(ActiveNow) = 3
  /\ ledger[1].deviceId = ledger[2].deviceId
  /\ ledger[1].ipAddress # ledger[2].ipAddress
  /\ ledger[3].deviceId # ledger[1].deviceId
  /\ scored.deviceGroups = << <<ledger[1].deviceId>>, <<ledger[3].deviceId>> >>
  /\ ledger[2] \notin Range(Flatten(groupSimilarDevices(ActiveList)))

\* C14: every call of enforcePolicy has appended at least one audit record
\* when it returns, whichever action it chose, allow included.
C14_EveryDecisionAudited ==
  (sreq.pc = "done" /\ sreq.enforce = "returned") => sreq.audits >= 1

\* C15: when the write that terminates sessions fails inside enforcePolicy,
\* the enforcer still returns the action it chose (terminate with blocked,
\* or restrict), an audit record that notes the failure follows the record of
\* the detection, and the outcome remains 'sharing'.
C15_DecisionSurvivesFailedWrite ==
  (sreq.pc = "done" /\ sreq.writeRaised) =>
    /\ sreq.policy = sreq.branch
    /\ sreq.policy = "terminate" => sreq.blocked
    /\ sreq.audits >= 2
    /\ sreq.detectionResult.isSharing

\* C16: for the ledger as it is read, shouldBlockRequest returns true exactly
\* when enforcePolicy would choose terminate for detectSharing's assessment
\* of that ledger, and the call leaves the sessions and the audit records as
\* they were.
C16_QuickCheckIsTerminate ==
  [][ ( /\ sreq.kind = "shouldBlock"
        /\ sreq.pc = "detect"
        /\ sreq'.pc = "done"
        /\ ~sreq'.readRaised )
      => /\ sreq'.block <=>
              policyBranch(detectSharing(
                  [raised |-> FALSE, sessions |-> getRecentUserSessions(ledger, clock)],
                  sreq.origin.deviceId, clock)) = "terminate"
         /\ ledger' = ledger
         /\ auditLog' = auditLog
    ]_vars

\* shouldBlockRequest answered true on a ledger of three active sessions,
\* which are all still there
C16_Witness ==
  /\ sreq.kind = "shouldBlock" /\ sreq.pc = "done"
  /\ sreq.block
  /\ sreq.detectionResult.activeSessions = 3
  /\ Len(ledger) = 3
  /\ sreq.audits = 0

\* C17: when updateSessionActivity or getUserSessions raises, the result of
\* detectSharing and detectAndEnforce has isSharing = false, confidence 0 and
\* a reason that marks the error, shouldBlockRequest returns false, the call
\* terminates no session and the request is not blocked.
C17_DetectionFailsOpen ==
  (sreq.pc = "done" /\ (sreq.updateRaised \/ sreq.readRaised)) =>
    /\ ~sreq.detectionResult.isSharing
    /\ sreq.detectionResult.confidence = 0
    /\ sreq.detectionResult.reason
         \in { <<"Error analyzing sessions">>, <<"Error during enforcement">> }
    /\ ~sreq.block
    /\ ~sreq.blocked
    /\ sreq.kind # "shouldBlock" => sreq.status = 200
    /\ sreq.terminated = 0
    /\ sreq.audits = 0

\* the read of the ledger raised in the middleware while three sessions of
\* three devices were active, and the request went on
C17_Witness ==
  /\ sreq.kind = "middleware" /\ sreq.pc = "done"
  /\ sreq.readRaised
  /\ sreq.status = 200
  /\ Len(filterActiveSessions(ledger, clock)) = 3

====
